---- MODULE Spec2Model ----
(***************************************************************************)
(* Model of the comparison engine of cliche: the line chunker              *)
(* (chunk/line.rs), the pattern scanner (chunk/pattern.rs) and the exact,  *)
(* chunked and pattern diffs (verify/exact.rs, verify/diff.rs,             *)
(* verify/pattern.rs).                                                     *)
(*                                                                         *)
(* A char is a Unicode scalar value (an integer), a str is a sequence of   *)
(* chars, a byte buffer is a sequence of integers in 0..255.  Lengths and  *)
(* offsets of a str are counted in bytes of its UTF-8 encoding, as in the  *)
(* source.  An Option is a sequence of length 0 (None) or 1 (Some).        *)
(***************************************************************************)
EXTENDS Integers, Sequences, FiniteSets, TLC

VARIABLES
    lines,      \* the ChunkedLines iterator (struct fields)
    lines_out,  \* the chunks yielded so far by lines.next()
    lines_ret,  \* what the last call of lines.next() returned
    lines_nones, \* how many calls of lines.next() returned None
    expected,   \* the expected argument of the diff under evaluation
    actual,     \* the actual argument of the diff under evaluation
    result,     \* the outcome of the diff: pending, returned(value) or panicked
    fixture,    \* the text a ChunkedPatterns iterator was made for
    patterns,   \* the ChunkedPatterns iterator (struct fields)
    patterns_rets, \* what the calls of patterns.next() returned, in order
    pat_locals, \* the locals of eval_pat_diff while its loop runs
    scanned,    \* the expected lines the loop of eval_pat_diff went through
    cmd_spec,   \* the CommandSpec under check (its fixture files)
    cmd_result, \* the CommandResult under check
    check       \* the outcome of check_result: pending, returned(value) or panicked

linesVars == <<lines, lines_out, lines_ret, lines_nones>>
diffVars == <<expected, actual, result>>
patternsVars == <<fixture, patterns, patterns_rets>>
patVars == <<pat_locals, scanned>>
checkVars == <<cmd_spec, cmd_result, check>>
vars == <<linesVars, diffVars, patternsVars, patVars, checkVars>>

(***************************************************************************)
(* Bounds of the explored inputs.                                          *)
(***************************************************************************)
MaxTextLen == 4
MaxChunkSize == 5
MaxTokens == 3
MaxTail == 2
MaxPatTokens == 4
MaxIdleCalls == 2
MaxPatLines == 2
MaxExitTokens == 3

None == <<>>
Some(x) == <<x>>

\* outcomes of a call
Pending == [state |-> "pending", value |-> None]
Returned(v) == [state |-> "returned", value |-> v]
Panicked == [state |-> "panicked", value |-> None]

NL == 10

\* The chars the explored texts are made of: 'a', '\n', U+00E9 (2 bytes),
\* U+1F34C (4 bytes).
LineChars == {97, NL, 233, 127820}

RECURSIVE SeqsUpTo(_, _)
SeqsUpTo(S, n) ==
    IF n = 0 THEN {<<>>}
    ELSE LET shorter == SeqsUpTo(S, n - 1)
         IN  shorter \cup {Append(s, c) : s \in {t \in shorter : Len(t) = n - 1}, c \in S}

(***************************************************************************)
(* str primitives of the standard library, as the source uses them.        *)
(***************************************************************************)
\* char::len_utf8
len_utf8(c) ==
    IF c < 128 THEN 1
    ELSE IF c < 2048 THEN 2
    ELSE IF c < 65536 THEN 3
    ELSE 4

\* str::len: the length in bytes
RECURSIVE str_len(_)
str_len(s) == IF s = <<>> THEN 0 ELSE len_utf8(Head(s)) + str_len(Tail(s))

\* an offset counted in chars instead of bytes
offset_in_chars(s, k) == k

\* CharIndices::offset after k chars have been consumed
offset(s, k) == str_len(SubSeq(s, 1, k))

\* a byte offset that falls between two chars of s (or at either end)
is_char_boundary(s, off) == \E k \in 0..Len(s) : offset(s, k) = off

\* &s[from..to], for byte offsets on char boundaries: the chars that lie
\* between the two offsets (k is the next char, off its byte offset)
RECURSIVE slice_chars(_, _, _, _, _)
slice_chars(s, k, off, from, to) ==
    IF k > Len(s) \/ off >= to THEN <<>>
    ELSE LET w == len_utf8(s[k])
         IN  (IF off >= from /\ off + w <= to THEN <<s[k]>> ELSE <<>>)
                 \o slice_chars(s, k + 1, off + w, from, to)

slice(s, from, to) == slice_chars(s, 1, 0, from, to)

RECURSIVE concat(_)
concat(ss) == IF ss = <<>> THEN <<>> ELSE Head(ss) \o concat(Tail(ss))

\* the number of '\n' in s
RECURSIVE newlines(_)
newlines(s) ==
    IF s = <<>> THEN 0 ELSE (IF Head(s) = NL THEN 1 ELSE 0) + newlines(Tail(s))

(***************************************************************************)
(* chunk/line.rs: ChunkedLines.                                            *)
(* The field chars is the number of chars the CharIndices iterator has     *)
(* consumed; its offset() is offset(input, chars).                         *)
(***************************************************************************)
ChunkedLines_new(text, max_chunk_size) ==
    [ chars              |-> 0,
      max_chunk_size     |-> max_chunk_size,
      input              |-> text,
      remaining          |-> TRUE,
      current_row        |-> 1,
      chunk_start_offset |-> 0 ]

ChunkedLine(value, row) == [value |-> value, row |-> row]

\* an end of next() that yields what is left of the text even if it is empty
ChunkedLines_final_always(self) ==
    [ self |-> [self EXCEPT !.chunk_start_offset = offset(self.input, self.chars),
                            !.remaining = FALSE],
      item |-> Some(ChunkedLine(slice(self.input, self.chunk_start_offset,
                                      str_len(self.input)),
                                self.current_row)) ]

\* a next() that forgets the last chunk of a text not ending in a newline
ChunkedLines_final_dropped(self) ==
    [ self |-> [self EXCEPT !.chunk_start_offset = offset(self.input, self.chars),
                            !.remaining = FALSE],
      item |-> None ]

\* the end of next(): the text is exhausted (line.rs 71-84)
ChunkedLines_final(self) ==
    LET final_line == slice(self.input, self.chunk_start_offset, str_len(self.input))
        self1 == [self EXCEPT !.chunk_start_offset = offset(self.input, self.chars),
                              !.remaining = FALSE]
    IN  [ self |-> self1,
          item |-> IF final_line = <<>> THEN None
                   ELSE Some(ChunkedLine(final_line, self.current_row)) ]

\* a chunk that ends only once it is longer than the maximum
chunk_ends_over(len, max_chunk_size, new_line) == len > max_chunk_size \/ new_line

\* the test that ends a chunk (line.rs 60)
chunk_ends(len, max_chunk_size, new_line) == len >= max_chunk_size \/ new_line

\* a row that grows with every chunk
row_after_any_chunk(current_row, new_line) == current_row + 1

\* current_row after a chunk was cut (line.rs 63-65)
row_after(current_row, new_line) == IF new_line THEN current_row + 1 ELSE current_row

\* the while loop of next() (line.rs 53-69), then its end
RECURSIVE ChunkedLines_scan(_)
ChunkedLines_scan(self) ==
    IF self.chars >= Len(self.input) THEN ChunkedLines_final(self)
    ELSE LET c == self.input[self.chars + 1]
             self1 == [self EXCEPT !.chars = self.chars + 1]
             next_offset == offset(self1.input, self1.chars)
             new_line == (c = NL)
             line == slice(self1.input, self1.chunk_start_offset, next_offset)
             len == str_len(line)
         IN  IF chunk_ends(len, self1.max_chunk_size, new_line)
             THEN [ self |-> [self1 EXCEPT !.chunk_start_offset = next_offset,
                                           !.current_row = row_after(@, new_line)],
                    item |-> Some(ChunkedLine(line, self1.current_row)) ]
             ELSE ChunkedLines_scan(self1)

\* Iterator::next for ChunkedLines (line.rs 48-85)
ChunkedLines_next(self) ==
    IF ~self.remaining THEN [self |-> self, item |-> None]
    ELSE ChunkedLines_scan(self)

(***************************************************************************)
(* UTF-8 decoding of the standard library: str::from_utf8 (strict) and     *)
(* String::from_utf8_lossy (each maximal ill-formed byte sequence becomes  *)
(* one U+FFFD).                                                            *)
(***************************************************************************)
safe_get(b, i) == IF i <= Len(b) THEN b[i] ELSE 0

is_continuation(x) == x >= 128 /\ x <= 191

\* the char or the ill-formed sequence that starts at byte i of b:
\* valid, the number of bytes it takes, and the char
utf8_at(b, i) ==
    LET b1 == b[i]
        b2 == safe_get(b, i + 1)
        b3 == safe_get(b, i + 2)
        b4 == safe_get(b, i + 3)
        bad(n) == [valid |-> FALSE, n |-> n, c |-> 65533]
        good(n, c) == [valid |-> TRUE, n |-> n, c |-> c]
    IN  IF b1 < 128 THEN good(1, b1)
        ELSE IF b1 >= 194 /\ b1 <= 223 THEN
            IF is_continuation(b2) THEN good(2, (b1 - 192) * 64 + (b2 - 128))
            ELSE bad(1)
        ELSE IF b1 >= 224 /\ b1 <= 239 THEN
            IF ~( \/ (b1 = 224 /\ b2 >= 160 /\ b2 <= 191)
                  \/ (b1 >= 225 /\ b1 <= 236 /\ is_continuation(b2))
                  \/ (b1 = 237 /\ b2 >= 128 /\ b2 <= 159)
                  \/ (b1 >= 238 /\ is_continuation(b2)) ) THEN bad(1)
            ELSE IF ~is_continuation(b3) THEN bad(2)
            ELSE good(3, (b1 - 224) * 4096 + (b2 - 128) * 64 + (b3 - 128))
        ELSE IF b1 >= 240 /\ b1 <= 244 THEN
            IF ~( \/ (b1 = 240 /\ b2 >= 144 /\ b2 <= 191)
                  \/ (b1 >= 241 /\ b1 <= 243 /\ is_continuation(b2))
                  \/ (b1 = 244 /\ b2 >= 128 /\ b2 <= 143) ) THEN bad(1)
            ELSE IF ~is_continuation(b3) THEN bad(2)
            ELSE IF ~is_continuation(b4) THEN bad(3)
            ELSE good(4, (b1 - 240) * 262144 + (b2 - 128) * 4096
                             + (b3 - 128) * 64 + (b4 - 128))
        ELSE bad(1)

RECURSIVE utf8_decode(_, _)
utf8_decode(b, i) ==
    IF i > Len(b) THEN <<>>
    ELSE LET u == utf8_at(b, i) IN <<u>> \o utf8_decode(b, i + u.n)

\* str::from_utf8(b).is_ok()
from_utf8_is_ok(b) ==
    LET us == utf8_decode(b, 1) IN \A k \in 1..Len(us) : us[k].valid

\* String::from_utf8_lossy(b); also the str of from_utf8(b) when it is Ok
from_utf8_lossy(b) ==
    LET us == utf8_decode(b, 1) IN [k \in 1..Len(us) |-> us[k].c]

\* str::split_inclusive('\n'), collected
RECURSIVE split_inclusive(_)
split_inclusive(s) ==
    IF s = <<>> THEN <<>>
    ELSE LET nls == {k \in 1..Len(s) : s[k] = NL}
         IN  IF nls = {} THEN <<s>>
             ELSE LET k == CHOOSE x \in nls : \A y \in nls : x <= y
                  IN  <<SubSeq(s, 1, k)>> \o split_inclusive(SubSeq(s, k + 1, Len(s)))

\* slice::get, for a 0-based index
get(v, i) == IF i < Len(v) THEN Some(v[i + 1]) ELSE None

max(a, b) == IF a >= b THEN a ELSE b

(***************************************************************************)
(* verify/exact.rs: the exact diff.                                        *)
(***************************************************************************)
Diff_Line(e, a, row) == [kind |-> "Line", expected |-> e, actual |-> a, row |-> row]

\* the for loop of eval_exact_diff_as_str, from index line on (exact.rs 31-71)
RECURSIVE eval_exact_diff_loop(_, _, _, _)
eval_exact_diff_loop(expected_lines, actual_lines, line, max_lines) ==
    IF line >= max_lines THEN None
    ELSE LET expected_line == get(expected_lines, line)
             actual_line == get(actual_lines, line)
             row == line + 1
         IN  IF expected_line = None /\ actual_line = None THEN None
             ELSE IF expected_line # None /\ actual_line # None
                     /\ expected_line[1] = actual_line[1]
             THEN eval_exact_diff_loop(expected_lines, actual_lines, line + 1, max_lines)
             ELSE Some(Diff_Line(expected_line, actual_line, row))

\* a loop bound counting chars of one side only
exact_max_lines_short(expected_str, actual_str) == Len(split_inclusive(expected_str))

\* max_lines of eval_exact_diff_as_str (exact.rs 30)
exact_max_lines(expected_str, actual_str) == max(str_len(actual_str), str_len(expected_str))

\* eval_exact_diff_as_str (exact.rs 27-73)
eval_exact_diff_as_str(expected_str, actual_str) ==
    LET expected_lines == split_inclusive(expected_str)
        actual_lines == split_inclusive(actual_str)
        max_lines == exact_max_lines(expected_str, actual_str)
    IN  Returned(eval_exact_diff_loop(expected_lines, actual_lines, 0, max_lines))

\* eval_exact_diff_as_bytes (exact.rs 76-78): todo!() panics
eval_exact_diff_as_bytes(expected_bytes, actual_str) == Panicked

\* a match that takes the text arm only if both sides decode strictly
exact_is_text_both(expected_bytes, actual_bytes) ==
    from_utf8_is_ok(expected_bytes) /\ from_utf8_is_ok(actual_bytes)

\* the arm (Ok(expected), actual) of the match of eval_exact_diff
\* (exact.rs 9-12): actual_str is a Cow and matches whatever the bytes are
exact_is_text(expected_bytes, actual_bytes) == from_utf8_is_ok(expected_bytes)

\* eval_exact_diff (exact.rs 4-23)
eval_exact_diff(expected_bytes, actual_bytes) ==
    LET actual_str == from_utf8_lossy(actual_bytes)
    IN  IF exact_is_text(expected_bytes, actual_bytes)
        THEN eval_exact_diff_as_str(from_utf8_lossy(expected_bytes), actual_str)
        ELSE eval_exact_diff_as_bytes(expected_bytes, actual_str)

(***************************************************************************)
(* verify/diff.rs: the chunked diff.                                       *)
(***************************************************************************)
\* a diff whose two sides are exchanged
Diff_Line_swapped(e, a, number) ==
    [kind |-> "Line", expected |-> a, actual |-> e, number |-> number]

\* Diff::Line of verify/diff.rs, whose row field is called number
Diff_Line_number(e, a, number) ==
    [kind |-> "Line", expected |-> e, actual |-> a, number |-> number]

\* ChunkedLines::new(text, max_chunk_size).collect::<Vec<_>>()
RECURSIVE collect(_)
collect(self) ==
    LET r == ChunkedLines_next(self)
    IN  IF r.item = None THEN <<>> ELSE r.item \o collect(r.self)

\* a diff that numbers the chunk instead of reading its row
diff_row_chunk_index(chunk, i) == i + 1

\* the row reported for the chunk at index i (diff.rs 50, 65, 76)
diff_row(chunk, i) == chunk.row

\* the for loop of eval_diff_as_str, from index i on (diff.rs 42-89)
RECURSIVE eval_diff_loop(_, _, _, _)
eval_diff_loop(expected_chunks, actual_chunks, i, max_chunks) ==
    IF i >= max_chunks THEN None
    ELSE LET actual_chunk == get(actual_chunks, i)
             expected_chunk == get(expected_chunks, i)
         IN  IF actual_chunk # None /\ expected_chunk # None THEN
                 IF actual_chunk[1].value = expected_chunk[1].value
                 THEN eval_diff_loop(expected_chunks, actual_chunks, i + 1, max_chunks)
                 ELSE Some(Diff_Line_number(Some(expected_chunk[1].value),
                                            Some(actual_chunk[1].value),
                                            diff_row(actual_chunk[1], i)))
             ELSE IF actual_chunk # None THEN
                 Some(Diff_Line_number(None, Some(actual_chunk[1].value),
                                       diff_row(actual_chunk[1], i)))
             ELSE IF expected_chunk # None THEN
                 Some(Diff_Line_number(Some(expected_chunk[1].value), None,
                                       diff_row(expected_chunk[1], i)))
             ELSE None

\* max_chunk_size of eval_diff_as_str (diff.rs 38)
diff_max_chunk_size == 64

\* a loop that stops at the shorter of the two chunk lists
diff_max_chunks_min(expected_chunks, actual_chunks) ==
    IF Len(actual_chunks) <= Len(expected_chunks)
    THEN Len(actual_chunks) ELSE Len(expected_chunks)

\* max_chunks of eval_diff_as_str (diff.rs 41)
diff_max_chunks(expected_chunks, actual_chunks) ==
    max(Len(actual_chunks), Len(expected_chunks))

\* eval_diff_as_str (diff.rs 37-91)
eval_diff_as_str(expected_str, actual_str) ==
    LET expected_chunks == collect(ChunkedLines_new(expected_str, diff_max_chunk_size))
        actual_chunks == collect(ChunkedLines_new(actual_str, diff_max_chunk_size))
        max_chunks == diff_max_chunks(expected_chunks, actual_chunks)
    IN  Returned(eval_diff_loop(expected_chunks, actual_chunks, 0, max_chunks))

\* eval_diff_as_bytes (diff.rs 94-96)
eval_diff_as_bytes(expected_bytes, actual_str) == Returned(None)

\* a match that takes the text arm only if both sides decode strictly
diff_is_text_both(expected_bytes, actual_bytes) ==
    from_utf8_is_ok(expected_bytes) /\ from_utf8_is_ok(actual_bytes)

\* the arm (Ok(expected), actual) of the match of eval_diff (diff.rs 20-23)
diff_is_text(expected_bytes, actual_bytes) == from_utf8_is_ok(expected_bytes)

\* eval_diff (diff.rs 15-34)
eval_diff(expected_bytes, actual_bytes) ==
    LET actual_str == from_utf8_lossy(actual_bytes)
    IN  IF diff_is_text(expected_bytes, actual_bytes)
        THEN eval_diff_as_str(from_utf8_lossy(expected_bytes), actual_str)
        ELSE eval_diff_as_bytes(expected_bytes, actual_str)

(***************************************************************************)
(* chunk/pattern.rs: ChunkedPatterns.                                      *)
(* The field chars is the text the Peekable<Chars> iterator has not        *)
(* consumed yet.                                                           *)
(***************************************************************************)
ChunkedPatterns_new(text, max_chunk_size) ==
    [ chars          |-> text,
      max_chunk_size |-> max_chunk_size,
      current_row    |-> 1,
      read_state     |-> "SimpleLine",
      line           |-> <<>>,
      pattern_start  |-> <<60, 60, 60>>,
      pattern_end    |-> <<62, 62, 62>> ]

ChunkPattern_SimpleLine(value, row) == [kind |-> "SimpleLine", value |-> value, row |-> row]
ChunkPattern_PatternLine(value, row) == [kind |-> "PatternLine", value |-> value, row |-> row]

Ok(x) == [ok |-> TRUE, v |-> x]
Err(e) == [ok |-> FALSE, v |-> e]

\* Iterator::take(n).collect over a clone of the chars (pattern.rs 117-121)
peek_n(self, n) == SubSeq(self.chars, 1, IF n <= Len(self.chars) THEN n ELSE Len(self.chars))

\* n calls of chars.next() (pattern.rs 123-127)
skip_n(self, n) ==
    [self EXCEPT !.chars = SubSeq(@, (IF n <= Len(@) THEN n ELSE Len(@)) + 1, Len(@))]

is_pattern_start(self) == peek_n(self, Len(self.pattern_start)) = self.pattern_start

skip_pattern_start(self) == skip_n(self, Len(self.pattern_start))

is_pattern_end(self) == peek_n(self, Len(self.pattern_end)) = self.pattern_end

skip_pattern_end(self) == skip_n(self, Len(self.pattern_end))

\* the while loop of read_pattern (pattern.rs 151-163)
RECURSIVE read_pattern_loop(_, _)
read_pattern_loop(self, pattern) ==
    IF is_pattern_end(self) THEN [self |-> skip_pattern_end(self), res |-> Ok(pattern)]
    ELSE IF self.chars = <<>> THEN [self |-> self, res |-> Err("()")]
    ELSE read_pattern_loop([self EXCEPT !.chars = Tail(@)], Append(pattern, Head(self.chars)))

\* read_pattern (pattern.rs 147-164)
read_pattern(self) == read_pattern_loop(skip_pattern_start(self), <<>>)

regex_meta == {92, 47, 46, 123, 125, 40, 41, 91, 93, 94, 36, 42, 43, 63, 124}

\* an escape that leaves every char as it is
escape_nothing(c) == <<c>>

\* escape_regex_metacharacter (pattern.rs 167-176)
escape_regex_metacharacter(c) == IF c \in regex_meta THEN <<92, c>> ELSE <<c>>

\* a flush that leaves the state in HasPattern when the text goes on
flush_state_kept(self, eof) == IF eof THEN "Eof" ELSE self.read_state

\* the state after a flushed chunk (pattern.rs 103-107)
flush_state(self, eof) == IF eof THEN "Eof" ELSE "SimpleLine"

\* an unterminated marker that flushes the text accumulated so far
unterminated_flushed(self) ==
    [ self |-> [self EXCEPT !.read_state = "Error", !.line = <<>>],
      item |-> Some(Ok(ChunkPattern_PatternLine(self.line, self.current_row))) ]

\* read_pattern failed (pattern.rs 75-78)
unterminated(self) ==
    [ self |-> [self EXCEPT !.read_state = "Error"],
      item |-> Some(Err("pattern is invalid")) ]

\* the while loop of next() (pattern.rs 65-112)
RECURSIVE ChunkedPatterns_scan(_)
ChunkedPatterns_scan(self) ==
    IF self.chars = <<>> THEN [self |-> self, item |-> None]
    ELSE
        LET c == Head(self.chars)
            start == is_pattern_start(self)
            pat == read_pattern([self EXCEPT !.read_state = "HasPattern"])
        IN  IF start /\ ~pat.res.ok THEN unterminated(pat.self)
            ELSE
                LET self1 ==
                        IF start
                        THEN [pat.self EXCEPT !.line = @ \o pat.res.v]
                        ELSE [self EXCEPT !.chars = Tail(@),
                                          !.line = @ \o escape_regex_metacharacter(c)]
                    new_line == (c = NL)
                    eof == (self1.chars = <<>>)
                    len == str_len(self1.line)
                IN  IF len >= self1.max_chunk_size \/ new_line \/ eof
                    THEN LET row == self1.current_row
                             line == self1.line
                             chunk == IF self1.read_state = "SimpleLine"
                                      THEN ChunkPattern_SimpleLine(line, row)
                                      ELSE ChunkPattern_PatternLine(line, row)
                         IN  [ self |-> [self1 EXCEPT
                                             !.current_row = IF new_line THEN @ + 1 ELSE @,
                                             !.read_state = flush_state(self1, eof),
                                             !.line = <<>>],
                               item |-> Some(Ok(chunk)) ]
                    ELSE ChunkedPatterns_scan(self1)

\* Iterator::next for ChunkedPatterns (pattern.rs 60-113)
ChunkedPatterns_next(self) ==
    IF self.read_state = "Error" \/ self.read_state = "Eof"
    THEN [self |-> self, item |-> None]
    ELSE ChunkedPatterns_scan(self)

(***************************************************************************)
(* The regular expressions of the regex crate, for the patterns the        *)
(* explored fixtures hold: a sequence of atoms, each a literal char (plain *)
(* or backslash-escaped) or '.', any char but '\n', each optionally        *)
(* followed by '*'.  Other syntax is not modelled and never occurs.        *)
(***************************************************************************)
regex_atom(kind, c) == [kind |-> kind, c |-> c, star |-> FALSE]

\* Regex::new(src), from char i of src on, atoms being what was parsed before
RECURSIVE regex_parse(_, _, _)
regex_parse(src, i, atoms) ==
    IF i > Len(src) THEN Ok(atoms)
    ELSE LET c == src[i]
         IN  IF c = 42 THEN
                 IF atoms = <<>> THEN Err("repetition operator missing expression")
                 ELSE regex_parse(src, i + 1,
                                  [atoms EXCEPT ![Len(atoms)].star = TRUE])
             ELSE IF c = 92 THEN
                 IF i = Len(src) THEN Err("incomplete escape sequence")
                 ELSE regex_parse(src, i + 2, Append(atoms, regex_atom("lit", src[i + 1])))
             ELSE IF c = 46 THEN regex_parse(src, i + 1, Append(atoms, regex_atom("any", c)))
             ELSE regex_parse(src, i + 1, Append(atoms, regex_atom("lit", c)))

\* Regex::new
Regex_new(src) ==
    LET r == regex_parse(src, 1, <<>>)
    IN  IF r.ok THEN Ok([source |-> src, atoms |-> r.v]) ELSE r

\* the atoms from the k-th on match some piece of s that starts at char i
RECURSIVE regex_match_at(_, _, _, _)
regex_match_at(atoms, k, s, i) ==
    IF k > Len(atoms) THEN TRUE
    ELSE LET atom == atoms[k]
             here == /\ i <= Len(s)
                     /\ IF atom.kind = "any" THEN s[i] # NL ELSE s[i] = atom.c
         IN  IF atom.star
             THEN \/ regex_match_at(atoms, k + 1, s, i)
                  \/ here /\ regex_match_at(atoms, k, s, i + 1)
             ELSE here /\ regex_match_at(atoms, k + 1, s, i + 1)

\* Regex::find(s): the leftmost match, as Some(its start, a byte offset)
Regex_find(re, s) ==
    LET starts == {i \in 1..Len(s) + 1 : regex_match_at(re.atoms, 1, s, i)}
    IN  IF starts = {} THEN None
        ELSE Some([start |-> offset(s, (CHOOSE i \in starts : \A j \in starts : i <= j) - 1)])

(***************************************************************************)
(* chunk: PatternLines, the scanner verify/pattern.rs consumes.  It yields *)
(* one Result<PatternLine, error> per logical line of the fixture:         *)
(* NoPattern(text) for a line without marker, Pattern(regex) for a line    *)
(* with at least one <<<...>>> span, where the regex source is the escaped *)
(* literal spans and the raw spans, concatenated.                          *)
(***************************************************************************)
PatternLines_new(text) == [chars |-> text, state |-> "OutsideMarker"]

PatternLine_NoPattern(text) == [kind |-> "NoPattern", text |-> text]
PatternLine_Pattern(regex) == [kind |-> "Pattern", regex |-> regex]

starts_with(s, p) == Len(s) >= Len(p) /\ SubSeq(s, 1, Len(p)) = p

\* the chars up to the closing marker, and the chars after it
RECURSIVE PatternLines_span(_, _)
PatternLines_span(chars, span) ==
    IF starts_with(chars, <<62, 62, 62>>)
    THEN Ok([span |-> span, chars |-> SubSeq(chars, 4, Len(chars))])
    ELSE IF chars = <<>> THEN Err("pattern is invalid")
    ELSE PatternLines_span(Tail(chars), Append(span, Head(chars)))

\* a logical line is closed: it is compiled if it held a span
PatternLines_flush(chars, text, regex, has_pattern) ==
    LET state == IF chars = <<>> THEN "EndOfInput" ELSE "OutsideMarker"
        re == Regex_new(regex)
    IN  IF ~has_pattern
        THEN [ self |-> [chars |-> chars, state |-> state],
               item |-> Some(Ok(PatternLine_NoPattern(text))) ]
        ELSE IF re.ok
        THEN [ self |-> [chars |-> chars, state |-> state],
               item |-> Some(Ok(PatternLine_Pattern(re.v))) ]
        ELSE [ self |-> [chars |-> chars, state |-> "Error"],
               item |-> Some(Err(re.v)) ]

RECURSIVE PatternLines_scan(_, _, _, _)
PatternLines_scan(chars, text, regex, has_pattern) ==
    IF chars = <<>> THEN PatternLines_flush(chars, text, regex, has_pattern)
    ELSE IF starts_with(chars, <<60, 60, 60>>) THEN
        LET r == PatternLines_span(SubSeq(chars, 4, Len(chars)), <<>>)
        IN  IF r.ok
            THEN PatternLines_scan(r.v.chars, text, regex \o r.v.span, TRUE)
            ELSE [ self |-> [chars |-> <<>>, state |-> "Error"],
                   item |-> Some(Err(r.v)) ]
    ELSE LET c == Head(chars)
         IN  IF c = NL
             THEN PatternLines_flush(Tail(chars), Append(text, c),
                                     regex \o escape_regex_metacharacter(c), has_pattern)
             ELSE PatternLines_scan(Tail(chars), Append(text, c),
                                    regex \o escape_regex_metacharacter(c), has_pattern)

\* Iterator::next for PatternLines
PatternLines_next(self) ==
    IF self.state = "Error" \/ self.state = "EndOfInput"
    THEN [self |-> self, item |-> None]
    ELSE IF self.chars = <<>>
    THEN [self |-> [self EXCEPT !.state = "EndOfInput"], item |-> None]
    ELSE PatternLines_scan(self.chars, <<>>, <<>>, FALSE)

(***************************************************************************)
(* verify/pattern.rs: the pattern diff.  The locals of eval_pat_diff are   *)
(* actual_lines (the lines split_inclusive has not yielded yet),           *)
(* expected_lines (the PatternLines iterator) and row.                     *)
(***************************************************************************)
Diff_PatternLine(e, a, row) ==
    [kind |-> "PatternLine", expected |-> e, actual |-> a, row |-> row]

Error_InvalidPattern(reason, row) ==
    [kind |-> "InvalidPattern", reason |-> reason, row |-> row]

\* locals whose row counts from 0
eval_pat_diff_enter_row0(expected_str, actual_bytes) ==
    [ actual_lines   |-> split_inclusive(from_utf8_lossy(actual_bytes)),
      expected_lines |-> PatternLines_new(expected_str),
      row            |-> 0 ]

\* the locals at the start of the loop (pattern.rs 6-12)
eval_pat_diff_enter(expected_str, actual_bytes) ==
    [ actual_lines   |-> split_inclusive(from_utf8_lossy(actual_bytes)),
      expected_lines |-> PatternLines_new(expected_str),
      row            |-> 1 ]

\* a literal line compared without its line terminator
literal_equal_trimmed(expected_line, actual_line) ==
    LET trim(s) == IF s # <<>> /\ s[Len(s)] = NL THEN SubSeq(s, 1, Len(s) - 1) ELSE s
    IN  trim(expected_line) = trim(actual_line)

\* the test of a NoPattern line (pattern.rs 39)
literal_equal(expected_line, actual_line) == expected_line = actual_line

\* a pattern line accepted as soon as it matches somewhere in the line
pattern_accepts_anywhere(regex, actual_line) == Regex_find(regex, actual_line) # None

\* the test of a Pattern line (pattern.rs 59-81)
pattern_accepts(regex, actual_line) ==
    LET mat == Regex_find(regex, actual_line)
    IN  IF mat # None THEN ~(mat[1].start # 0) ELSE FALSE

\* the row of an error counted from 0
invalid_pattern_row0(e, row) == Error_InvalidPattern(e, row - 1)

\* the error of an invalid expected line (pattern.rs 16-22)
invalid_pattern(e, row) == Error_InvalidPattern(e, row)

\* a loop that never moves to the next row
next_row_kept(row) == row

\* the row of the next pass of the loop (pattern.rs 85)
next_row(row) == row + 1

\* one pass of the for loop on the expected line item (pattern.rs 13-86):
\* the outcome is pending when the loop goes on
eval_pat_diff_body(locals, item) ==
    LET row == locals.row
        actual_line == get(locals.actual_lines, 0)
        rest == IF actual_line = None THEN <<>> ELSE Tail(locals.actual_lines)
        taken == [locals EXCEPT !.actual_lines = rest]
        goes_on == [locals |-> [taken EXCEPT !.row = next_row(row)], result |-> Pending]
        stops(v) == [locals |-> taken, result |-> Returned(v)]
    IN  IF ~item.ok
        THEN [locals |-> locals, result |-> Returned(Err(invalid_pattern(item.v, row)))]
        ELSE IF item.v.kind = "NoPattern" THEN
            IF actual_line = None
            THEN stops(Ok(Some(Diff_Line(Some(item.v.text), None, row))))
            ELSE IF ~literal_equal(item.v.text, actual_line[1])
            THEN stops(Ok(Some(Diff_Line(Some(item.v.text), actual_line, row))))
            ELSE goes_on
        ELSE
            IF actual_line = None
            THEN stops(Ok(Some(Diff_PatternLine(Some(item.v.regex.source), None, row))))
            ELSE IF ~pattern_accepts(item.v.regex, actual_line[1])
            THEN stops(Ok(Some(Diff_PatternLine(Some(item.v.regex.source), actual_line, row))))
            ELSE goes_on

\* an end that reports a left-over actual line at the row of the last
\* expected line
eval_pat_diff_end_last_row(locals) ==
    LET actual_line == get(locals.actual_lines, 0)
    IN  IF actual_line # None
        THEN Returned(Ok(Some(Diff_Line(None, actual_line, locals.row - 1))))
        ELSE Returned(Ok(None))

\* a diff that forgets the actual lines left over
eval_pat_diff_end_lenient(locals) == Returned(Ok(None))

\* after the loop (pattern.rs 88-98)
eval_pat_diff_end(locals) ==
    LET actual_line == get(locals.actual_lines, 0)
    IN  IF actual_line # None
        THEN Returned(Ok(Some(Diff_Line(None, actual_line, locals.row))))
        ELSE Returned(Ok(None))

(***************************************************************************)
(* command.rs: CommandSpec and CommandResult.  A fixture path is modelled  *)
(* with the file it names: whether fs::read succeeds, and the bytes it     *)
(* returns.                                                                *)
(***************************************************************************)
File(readable, bytes) == [readable |-> readable, bytes |-> bytes]

\* the newtype ExitCode(i32)
ExitCode(code) == code

CommandSpec_new(exit_code_path, stdout_path, stdout_pat_path, stderr_path) ==
    [ exit_code_path  |-> exit_code_path,
      stdout_path     |-> stdout_path,
      stdout_pat_path |-> stdout_pat_path,
      stderr_path     |-> stderr_path ]

CommandResult_new(exit_code, stdout, stderr) ==
    [exit_code |-> exit_code, stdout |-> stdout, stderr |-> stderr]

\* char::is_whitespace
is_whitespace(c) ==
    \/ c \in {32, 133, 160, 5760, 8232, 8233, 8239, 8287, 12288}
    \/ (c >= 9 /\ c <= 13)
    \/ (c >= 8192 /\ c <= 8202)

\* str::trim_start and str::trim
RECURSIVE trim_start(_)
trim_start(s) ==
    IF s # <<>> /\ is_whitespace(Head(s)) THEN trim_start(Tail(s)) ELSE s

RECURSIVE trim_end(_)
trim_end(s) ==
    IF s # <<>> /\ is_whitespace(s[Len(s)]) THEN trim_end(SubSeq(s, 1, Len(s) - 1)) ELSE s

trim(s) == trim_end(trim_start(s))

is_digit(c) == c >= 48 /\ c <= 57

i32_MAX == 2147483647
i32_MIN == -2147483647 - 1

\* the digits of s read from the left onto the accumulator acc, the way
\* i32::from_str does: checked_mul(10) then checked_add or checked_sub of the
\* digit; None on a char that is not a digit or on overflow
RECURSIVE parse_digits(_, _, _)
parse_digits(s, acc, negative) ==
    IF s = <<>> THEN Some(acc)
    ELSE IF ~is_digit(Head(s)) THEN None
    ELSE LET d == Head(s) - 48
             overflow == IF negative THEN acc < (i32_MIN + d + 9) \div 10
                         ELSE acc > (i32_MAX - d) \div 10
         IN  IF overflow THEN None
             ELSE parse_digits(Tail(s), IF negative THEN acc * 10 - d ELSE acc * 10 + d,
                               negative)

\* str::parse::<i32>: an optional sign, then at least one digit
parse_i32(s) ==
    IF s = <<>> THEN None
    ELSE IF Head(s) \in {43, 45}
    THEN IF Len(s) = 1 THEN None ELSE parse_digits(Tail(s), 0, Head(s) = 45)
    ELSE parse_digits(s, 0, FALSE)

Error_ExpectedExitCodeFile(cause) == [kind |-> "ExpectedExitCodeFile", cause |-> cause]

\* an expected exit code read without trimming the file
expected_exit_code_untrimmed(self) ==
    IF self.exit_code_path = None THEN Ok(ExitCode(0))
    ELSE LET file == self.exit_code_path[1]
         IN  IF ~file.readable THEN Err(Error_ExpectedExitCodeFile("io error"))
             ELSE IF ~from_utf8_is_ok(file.bytes)
             THEN Err(Error_ExpectedExitCodeFile(
                          ".exit file encoding must use UTF-8"))
             ELSE LET exit_code == parse_i32(from_utf8_lossy(file.bytes))
                  IN  IF exit_code = None
                      THEN Err(Error_ExpectedExitCodeFile(
                          ".exit file can not be converted to integer exit code"))
                      ELSE Ok(ExitCode(exit_code[1]))

\* CommandSpec::expected_exit_code (command.rs 77-105), which verify/mod.rs
\* calls as cmd.exit_code()
expected_exit_code(self) ==
    IF self.exit_code_path = None THEN Ok(ExitCode(0))
    ELSE LET file == self.exit_code_path[1]
         IN  IF ~file.readable THEN Err(Error_ExpectedExitCodeFile("io error"))
             ELSE IF ~from_utf8_is_ok(file.bytes)
             THEN Err(Error_ExpectedExitCodeFile(
                          ".exit file encoding must use UTF-8"))
             ELSE LET exit_code == parse_i32(trim(from_utf8_lossy(file.bytes)))
                  IN  IF exit_code = None
                      THEN Err(Error_ExpectedExitCodeFile(
                          ".exit file can not be converted to integer exit code"))
                      ELSE Ok(ExitCode(exit_code[1]))

Error_FileRead == [kind |-> "FileRead"]

\* CommandSpec::expected_stdout (command.rs 108-122), which verify/mod.rs
\* calls as cmd.stdout()
expected_stdout(self) ==
    IF self.stdout_path = None THEN Ok(<<>>)
    ELSE IF ~self.stdout_path[1].readable THEN Err(Error_FileRead)
    ELSE Ok(self.stdout_path[1].bytes)

(***************************************************************************)
(* The accessors of CommandSpec that verify/mod.rs calls and command.rs    *)
(* does not define: a fixture exists when its path is set, and the pattern *)
(* fixture is read as a UTF-8 string.                                      *)
(***************************************************************************)
exit_code(self) == expected_exit_code(self)

stdout(self) == expected_stdout(self)

has_stdout(self) == self.stdout_path # None

has_stdout_pat(self) == self.stdout_pat_path # None

has_stderr(self) == self.stderr_path # None

Error_FileNotUtf8 == [kind |-> "FileNotUtf8"]

stdout_pat(self) ==
    IF self.stdout_pat_path = None THEN Ok(<<>>)
    ELSE IF ~self.stdout_pat_path[1].readable THEN Err(Error_FileRead)
    ELSE IF ~from_utf8_is_ok(self.stdout_pat_path[1].bytes) THEN Err(Error_FileNotUtf8)
    ELSE Ok(from_utf8_lossy(self.stdout_pat_path[1].bytes))

stderr(self) ==
    IF self.stderr_path = None THEN Ok(<<>>)
    ELSE IF ~self.stderr_path[1].readable THEN Err(Error_FileRead)
    ELSE Ok(self.stderr_path[1].bytes)

(***************************************************************************)
(* verify/pattern.rs: eval_pat_diff as one call.                           *)
(***************************************************************************)
\* the for loop of eval_pat_diff and what follows it (pattern.rs 13-98)
RECURSIVE eval_pat_diff_loop(_)
eval_pat_diff_loop(locals) ==
    LET r == PatternLines_next(locals.expected_lines)
        locals1 == [locals EXCEPT !.expected_lines = r.self]
    IN  IF r.item = None THEN eval_pat_diff_end(locals1)
        ELSE LET b == eval_pat_diff_body(locals1, r.item[1])
             IN  IF b.result.state = "pending" THEN eval_pat_diff_loop(b.locals)
                 ELSE b.result

\* eval_pat_diff (pattern.rs 4-99)
eval_pat_diff(expected_str, actual_bytes) ==
    eval_pat_diff_loop(eval_pat_diff_enter(expected_str, actual_bytes))

(***************************************************************************)
(* verify/mod.rs: the checks of a command result against its fixtures.     *)
(* A check returns Ok(()) or Err(error), or panics.                        *)
(***************************************************************************)
Unit == "()"

Error_CheckExitCode(e, a, err) ==
    [kind |-> "CheckExitCode", expected |-> e, actual |-> a, stderr |-> err]

Error_CheckStdoutLine(e, a, row) ==
    [kind |-> "CheckStdoutLine", expected |-> e, actual |-> a, row |-> row]

Error_CheckStderrLine(e, a, row) ==
    [kind |-> "CheckStderrLine", expected |-> e, actual |-> a, row |-> row]

Error_CheckStdoutPattern(e, a, row) ==
    [kind |-> "CheckStdoutPattern", expected |-> e, actual |-> a, row |-> row]

Error_StdoutPatternFileInvalid(reason, row) ==
    [kind |-> "StdoutPatternFileInvalid", reason |-> reason, row |-> row]

\* a check that takes any exit code when there is no .exit file
check_exit_code_lenient(cmd, res) ==
    LET expected_exit_code_ == exit_code(cmd)
    IN  IF ~expected_exit_code_.ok THEN Returned(Err(expected_exit_code_.v))
        ELSE IF cmd.exit_code_path # None /\ expected_exit_code_.v # res.exit_code
        THEN Returned(Err(Error_CheckExitCode(expected_exit_code_.v, res.exit_code,
                                              res.stderr)))
        ELSE Returned(Ok(Unit))

\* check_exit_code (mod.rs 39-52)
check_exit_code(cmd, res) ==
    LET expected_exit_code_ == exit_code(cmd)
        actual_exit_code == res.exit_code
    IN  IF ~expected_exit_code_.ok THEN Returned(Err(expected_exit_code_.v))
        ELSE IF expected_exit_code_.v # actual_exit_code
        THEN Returned(Err(Error_CheckExitCode(expected_exit_code_.v, actual_exit_code,
                                              res.stderr)))
        ELSE Returned(Ok(Unit))

\* the match on the diff of check_equal_stdout (mod.rs 59-73)
stdout_outcome(diff) ==
    IF diff.state = "panicked" THEN Panicked
    ELSE IF diff.value = None THEN Returned(Ok(Unit))
    ELSE Returned(Err(Error_CheckStdoutLine(diff.value[1].expected, diff.value[1].actual,
                                            diff.value[1].row)))

\* check_equal_stdout (mod.rs 54-74)
check_equal_stdout(cmd, res) ==
    LET expected_ == stdout(cmd)
    IN  IF ~expected_.ok THEN Returned(Err(expected_.v))
        ELSE stdout_outcome(eval_exact_diff(expected_.v, res.stdout))

\* the match on the diff of check_equal_stderr (mod.rs 81-95)
stderr_outcome(diff) ==
    IF diff.state = "panicked" THEN Panicked
    ELSE IF diff.value = None THEN Returned(Ok(Unit))
    ELSE Returned(Err(Error_CheckStderrLine(diff.value[1].expected, diff.value[1].actual,
                                            diff.value[1].row)))

\* check_equal_stderr (mod.rs 76-96)
check_equal_stderr(cmd, res) ==
    LET expected_ == stderr(cmd)
    IN  IF ~expected_.ok THEN Returned(Err(expected_.v))
        ELSE stderr_outcome(eval_exact_diff(expected_.v, res.stderr))

\* the two matches on the diff of check_equal_stdout_pat (mod.rs 102-136)
stdout_pat_outcome(diff) ==
    IF ~diff.ok
    THEN Returned(Err(Error_StdoutPatternFileInvalid(diff.v.reason, diff.v.row)))
    ELSE IF diff.v = None THEN Returned(Ok(Unit))
    ELSE IF diff.v[1].kind = "Line"
    THEN Returned(Err(Error_CheckStdoutLine(diff.v[1].expected, diff.v[1].actual,
                                            diff.v[1].row)))
    ELSE Returned(Err(Error_CheckStdoutPattern(diff.v[1].expected, diff.v[1].actual,
                                               diff.v[1].row)))

\* check_equal_stdout_pat (mod.rs 98-137)
check_equal_stdout_pat(cmd, res) ==
    LET expected_stdout_pat == stdout_pat(cmd)
    IN  IF ~expected_stdout_pat.ok THEN Returned(Err(expected_stdout_pat.v))
        ELSE stdout_pat_outcome(eval_pat_diff(expected_stdout_pat.v, res.stdout).value)

\* check_empty_stdout (mod.rs 139-142)
check_empty_stdout(cmd, res) == Returned(Ok(Unit))

\* a check that went through
passed(outcome) == outcome.state = "returned" /\ outcome.value.ok

\* `first?; then`: then runs only if first went through
and_then(first, then) == IF passed(first) THEN then ELSE first

\* the checks of stdout in check_result (mod.rs 19-28)
check_stdout(cmd, res) ==
    IF has_stdout(cmd) /\ has_stdout_pat(cmd)
    THEN and_then(check_equal_stdout(cmd, res), check_equal_stdout_pat(cmd, res))
    ELSE IF has_stdout(cmd) THEN check_equal_stdout(cmd, res)
    ELSE IF has_stdout_pat(cmd) THEN check_equal_stdout_pat(cmd, res)
    ELSE check_empty_stdout(cmd, res)

\* the check of stderr in check_result (mod.rs 31-35)
check_stderr(cmd, res) ==
    IF has_stderr(cmd) THEN check_equal_stderr(cmd, res) ELSE Returned(Ok(Unit))

\* check_result (mod.rs 9-36)
check_result(cmd, res) ==
    and_then(check_exit_code(cmd, res),
             and_then(check_stdout(cmd, res), check_stderr(cmd, res)))

(***************************************************************************)
(* Specification of one ChunkedLines iterator driven to exhaustion and     *)
(* beyond.                                                                 *)
(***************************************************************************)
Texts == SeqsUpTo(LineChars, MaxTextLen)

LinesIdle ==
    /\ lines = ChunkedLines_new(<<>>, 1)
    /\ lines_out = <<>>
    /\ lines_ret = "new"
    /\ lines_nones = 0

DiffIdle ==
    /\ expected = <<>>
    /\ actual = <<>>
    /\ result = Pending

PatternsIdle ==
    /\ fixture = <<>>
    /\ patterns = ChunkedPatterns_new(<<>>, 1)
    /\ patterns_rets = <<>>

PatIdle ==
    /\ pat_locals = eval_pat_diff_enter(<<>>, <<>>)
    /\ scanned = <<>>

CheckIdle ==
    /\ cmd_spec = CommandSpec_new(None, None, None, None)
    /\ cmd_result = CommandResult_new(ExitCode(0), <<>>, <<>>)
    /\ check = Pending

InitLines ==
    /\ \E t \in Texts, n \in 1..MaxChunkSize : lines = ChunkedLines_new(t, n)
    /\ lines_out = <<>>
    /\ lines_ret = "new"
    /\ lines_nones = 0
    /\ DiffIdle
    /\ PatternsIdle
    /\ PatIdle
    /\ CheckIdle

LinesNext ==
    LET r == ChunkedLines_next(lines)
    IN  /\ lines_nones <= MaxIdleCalls
        /\ lines' = r.self
        /\ lines_out' = lines_out \o r.item
        /\ lines_ret' = IF r.item = None THEN "None" ELSE "Some"
        /\ lines_nones' = IF r.item = None THEN lines_nones + 1 ELSE lines_nones
        /\ UNCHANGED <<diffVars, patternsVars, patVars, checkVars>>

NextLines == LinesNext

SpecLines == InitLines /\ [][NextLines]_vars

values(items) == [i \in 1..Len(items) |-> items[i].value]

\* C1: once ChunkedLines::new(t, n) with n >= 1 is exhausted, the chunks it
\* yielded, concatenated in order, are exactly t.
C1_ConcatIsText ==
    (lines.max_chunk_size >= 1 /\ lines_ret = "None")
        => concat(values(lines_out)) = lines.input

C1_Witness ==
    /\ lines_ret = "None"
    /\ Len(lines_out) >= 3
    /\ lines.max_chunk_size = 2
    /\ \E i \in 1..Len(lines.input) : len_utf8(lines.input[i]) = 4
    /\ lines.input[Len(lines.input)] # NL

(***************************************************************************)
(* Specification of one call of eval_exact_diff on two byte buffers.       *)
(***************************************************************************)
\* The byte sequences the explored buffers are made of: "a", "\n", U+FFFD
\* encoded in UTF-8, and a lone 0xE9 (Latin-1, ill-formed in UTF-8).
ByteTokens == {<<97>>, <<NL>>, <<239, 191, 189>>, <<233>>}

Buffers == {concat(ts) : ts \in SeqsUpTo(ByteTokens, MaxTokens)}

InitExact ==
    /\ LinesIdle
    /\ PatternsIdle
    /\ PatIdle
    /\ CheckIdle
    /\ expected \in Buffers
    /\ actual \in Buffers
    /\ result = Pending

EvalExactDiff ==
    /\ result = Pending
    /\ result' = eval_exact_diff(expected, actual)
    /\ UNCHANGED <<linesVars, expected, actual, patternsVars, patVars, checkVars>>

NextExact == EvalExactDiff

SpecExact == InitExact /\ [][NextExact]_vars

\* C2: eval_exact_diff(x, x) returns None for every byte sequence x, valid
\* UTF-8 or not.
C2_ExactReflexive ==
    (result # Pending /\ expected = actual) => result = Returned(None)

\* the lines of s: s cut after each newline, a last line without newline kept
IsLinesOf(ls, s) ==
    /\ concat(ls) = s
    /\ \A k \in 1..Len(ls) :
        /\ ls[k] # <<>>
        /\ \A j \in 1..Len(ls[k]) - 1 : ls[k][j] # NL
        /\ k < Len(ls) => ls[k][Len(ls[k])] = NL

\* the first 0-based index at which two sequences of lines differ or exactly
\* one of them has no line, as an Option
FirstMismatch(el, al) ==
    LET D == {i \in 0..max(Len(el), Len(al)) - 1 : get(el, i) # get(al, i)}
    IN  IF D = {} THEN None ELSE Some(CHOOSE i \in D : \A j \in D : i <= j)

RECURSIVE repeat(_, _)
repeat(s, n) == IF n = 0 THEN <<>> ELSE s \o repeat(s, n - 1)

\* U+1F34C in UTF-8
Banana == <<240, 159, 141, 140>>

\* runs of 0, 63 and 64 bytes, and a 64-byte run on the second line
DiffRuns ==
    { <<>>,
      repeat(Banana, 15) \o <<97, 97, 97>>,
      repeat(Banana, 16),
      <<97, NL>> \o repeat(Banana, 16) }

DiffHeads == {<<>>, <<97>>, <<NL>>}

DiffTails == {concat(ts) : ts \in SeqsUpTo({<<97>>, <<NL>>, <<233>>}, MaxTail)}

\* either the two buffers share a run and differ in their tails, or they
\* differ in their heads, before a long run
InitDiff ==
    /\ LinesIdle
    /\ PatternsIdle
    /\ PatIdle
    /\ CheckIdle
    /\ \/ \E run \in DiffRuns, te \in DiffTails, ta \in DiffTails :
            /\ expected = run \o te
            /\ actual = run \o ta
       \/ \E run \in DiffRuns \ {<<>>}, he \in DiffHeads, ha \in DiffHeads,
             t \in {<<>>, <<97>>} :
            /\ expected = he \o run \o t
            /\ actual = ha \o run \o t
    /\ result = Pending

EvalDiff ==
    /\ result = Pending
    /\ result' = eval_diff(expected, actual)
    /\ UNCHANGED <<linesVars, expected, actual, patternsVars, patVars, checkVars>>

NextDiff == EvalDiff

SpecDiff == InitDiff /\ [][NextDiff]_vars

\* the chunks of a text, by the contract of ChunkedLines: cut after each
\* newline and as soon as the byte length reaches n
RECURSIVE ChunksOf(_, _, _)
ChunksOf(s, n, row) ==
    IF s = <<>> THEN <<>>
    ELSE LET ends == {k \in 1..Len(s) :
                         s[k] = NL \/ str_len(SubSeq(s, 1, k)) >= n \/ k = Len(s)}
             k == CHOOSE x \in ends : \A y \in ends : x <= y
         IN  <<ChunkedLine(SubSeq(s, 1, k), row)>>
                 \o ChunksOf(SubSeq(s, k + 1, Len(s)), n,
                             IF s[k] = NL THEN row + 1 ELSE row)

\* C9: for a valid UTF-8 expected, eval_diff returns None exactly when the
\* expected text equals the lossily decoded actual text; otherwise it returns
\* a Diff::Line for the first chunk index at which the chunk texts differ or
\* one side has no chunk.
C9_DiffNoneIffEqual ==
    (result # Pending /\ from_utf8_is_ok(expected)) =>
        LET e == from_utf8_lossy(expected)
            a == from_utf8_lossy(actual)
            ec == values(ChunksOf(e, diff_max_chunk_size, 1))
            ac == values(ChunksOf(a, diff_max_chunk_size, 1))
            m == FirstMismatch(ec, ac)
        IN  /\ result.state = "returned"
            /\ (result.value = None) <=> (e = a)
            /\ result.value # None =>
                /\ m # None
                /\ result.value[1].kind = "Line"
                /\ result.value[1].expected = get(ec, m[1])
                /\ result.value[1].actual = get(ac, m[1])

\* two long texts that differ in their second chunk only
C9_Witness ==
    /\ result.state = "returned"
    /\ result.value # None
    /\ from_utf8_is_ok(expected)
    /\ from_utf8_is_ok(actual)
    /\ Len(expected) > diff_max_chunk_size
    /\ Len(actual) > diff_max_chunk_size
    /\ SubSeq(expected, 1, diff_max_chunk_size) = SubSeq(actual, 1, diff_max_chunk_size)
    /\ result.value[1].expected # None
    /\ result.value[1].actual # None

\* the first 0-based char position at which two texts differ or one of them
\* ends, as an Option
FirstDifference(e, a) == FirstMismatch(e, a)

\* the reported side opt of a diff is the piece of text t that starts at char
\* position s, and position p falls in it (or t ends at p)
Covers(opt, t, s, p) ==
    IF opt = None THEN s = Len(t) /\ p = s
    ELSE LET c == opt[1]
         IN  /\ s + Len(c) <= Len(t)
             /\ SubSeq(t, s + 1, s + Len(c)) = c
             /\ \/ p < s + Len(c)
                \/ p = s + Len(c) /\ p = Len(t)

\* C10: a diff reported by eval_diff carries the chunk pair that contains the
\* first position at which the expected and the decoded actual text differ
\* (or one of them ends); its row is the line number of that position, 1 +
\* the number of newlines before the chunk; the two chunks at the reported
\* index carry the same row.
C10_DiffRowIsLineOfFirstDifference ==
    (result.state = "returned" /\ result.value # None) =>
        LET e == from_utf8_lossy(expected)
            a == from_utf8_lossy(actual)
            d == result.value[1]
            p == FirstDifference(e, a)
            ec == collect(ChunkedLines_new(e, diff_max_chunk_size))
            ac == collect(ChunkedLines_new(a, diff_max_chunk_size))
            m == FirstMismatch(values(ec), values(ac))
        IN  /\ p # None
            /\ m # None
            /\ \E s \in 0..p[1] :
                /\ Covers(d.expected, e, s, p[1])
                /\ Covers(d.actual, a, s, p[1])
                /\ d.number = 1 + newlines(SubSeq(e, 1, s))
            /\ d.number = 1 + newlines(SubSeq(e, 1, p[1]))
            /\ (m[1] < Len(ec) /\ m[1] < Len(ac)) => ec[m[1] + 1].row = ac[m[1] + 1].row

\* a diff in the second chunk of the second line: row 2, chunk index 2
C10_Witness ==
    /\ result.state = "returned"
    /\ result.value # None
    /\ result.value[1].number = 2
    /\ result.value[1].expected # None
    /\ result.value[1].actual # None
    /\ LET ec == collect(ChunkedLines_new(from_utf8_lossy(expected), diff_max_chunk_size))
       IN  /\ Len(ec) = 3
           /\ result.value[1].expected = Some(ec[3].value)
           /\ ec[2].row = 2
           /\ str_len(ec[2].value) = diff_max_chunk_size

(***************************************************************************)
(* Specification of one ChunkedPatterns iterator driven to its end and     *)
(* beyond.                                                                 *)
(***************************************************************************)
\* The pieces the explored fixtures are made of: "<<<", ">>>", "a", "\n",
\* "." (a regex metacharacter) and ">".
PatTokens == {<<60, 60, 60>>, <<62, 62, 62>>, <<97>>, <<NL>>, <<46>>, <<62>>}

Fixtures == {concat(ts) : ts \in SeqsUpTo(PatTokens, MaxPatTokens)}

PatChunkSizes == {1, 2, 32}

InitPatterns ==
    /\ LinesIdle
    /\ DiffIdle
    /\ PatIdle
    /\ CheckIdle
    /\ fixture \in Fixtures
    /\ \E n \in PatChunkSizes : patterns = ChunkedPatterns_new(fixture, n)
    /\ patterns_rets = <<>>

\* the number of calls that returned None
idle_calls(rets) == Cardinality({i \in 1..Len(rets) : rets[i].item = None})

\* a call of next(); each return is recorded with the number of chars the
\* iterator has left
PatternsNext ==
    /\ idle_calls(patterns_rets) < MaxIdleCalls
    /\ LET r == ChunkedPatterns_next(patterns)
       IN  /\ patterns' = r.self
           /\ patterns_rets' =
                  Append(patterns_rets, [item |-> r.item, left |-> Len(r.self.chars)])
    /\ UNCHANGED <<linesVars, diffVars, fixture, patVars, checkVars>>

NextPatterns == PatternsNext

SpecPatterns == InitPatterns /\ [][NextPatterns]_vars

IsNone(ret) == ret.item = None
IsOk(ret) == ret.item # None /\ ret.item[1].ok
IsErr(ret) == ret.item # None /\ ~ret.item[1].ok

\* the 0-based position of the "<<<" that no ">>>" closes, as an Option;
\* i is the 1-based position the search is at
RECURSIVE OpenMarkerFrom(_, _)
OpenMarkerFrom(t, i) ==
    IF i > Len(t) THEN None
    ELSE IF i + 2 <= Len(t) /\ SubSeq(t, i, i + 2) = <<60, 60, 60>>
    THEN LET closes == {j \in i + 3..Len(t) - 2 : SubSeq(t, j, j + 2) = <<62, 62, 62>>}
         IN  IF closes = {} THEN Some(i - 1)
             ELSE OpenMarkerFrom(t, (CHOOSE j \in closes : \A k \in closes : j <= k) + 3)
    ELSE OpenMarkerFrom(t, i + 1)

OpenMarker(t) == OpenMarkerFrom(t, 1)

\* the units of a text whose markers are all closed: each char outside the
\* markers, escaped, and each <<<...>>> span, its content
RECURSIVE Units(_)
Units(t) ==
    IF t = <<>> THEN <<>>
    ELSE IF starts_with(t, <<60, 60, 60>>)
    THEN LET closes == {j \in 4..Len(t) - 2 : SubSeq(t, j, j + 2) = <<62, 62, 62>>}
             j == CHOOSE x \in closes : \A y \in closes : x <= y
         IN  <<[text |-> SubSeq(t, 4, j - 1), span |-> TRUE, nl |-> FALSE]>>
                 \o Units(SubSeq(t, j + 3, Len(t)))
    ELSE <<[text |-> IF Head(t) \in regex_meta THEN <<92, Head(t)>> ELSE <<Head(t)>>,
            span |-> FALSE, nl |-> Head(t) = NL]>> \o Units(Tail(t))

\* the value of a text whose markers are all closed
Render(t) == LET us == Units(t) IN concat([k \in 1..Len(us) |-> us[k].text])

\* the units grouped in chunks: a chunk ends with a newline outside the
\* markers, with the unit that brings its value to n bytes, or with the text;
\* each chunk is the kind of item it makes
RECURSIVE ChunkKinds(_, _, _, _)
ChunkKinds(us, n, len, spans) ==
    IF us = <<>> THEN <<>>
    ELSE LET u == Head(us)
             len1 == len + str_len(u.text)
             spans1 == spans \/ u.span
         IN  IF u.nl \/ len1 >= n \/ Len(us) = 1
             THEN <<IF spans1 THEN "PatternLine" ELSE "SimpleLine">>
                      \o ChunkKinds(Tail(us), n, 0, FALSE)
             ELSE ChunkKinds(Tail(us), n, len1, spans1)

\* the items a sequence of returns holds
ok_items(rets) ==
    LET idx == {i \in 1..Len(rets) : IsOk(rets[i])}
        nth(k) == CHOOSE i \in idx : Cardinality({j \in idx : j <= i}) = k
    IN  [k \in 1..Cardinality(idx) |-> rets[nth(k)].item[1].v]

\* the items ChunkedPatterns yields for a text, until it returns None
RECURSIVE items_of(_)
items_of(self) ==
    LET r == ChunkedPatterns_next(self)
    IN  IF r.item = None \/ ~r.item[1].ok THEN <<>>
        ELSE <<r.item[1].v>> \o items_of(r.self)

Stopped == patterns_rets # <<>> /\ IsNone(patterns_rets[Len(patterns_rets)])

\* C7: on a fixture that ends inside an open marker the scanner yields the
\* items completed before the chunk of the marker, then one Err, the text
\* accumulated for that chunk being kept back, then None for ever; after an
\* Err, after the item that reaches the end of input, and after a None,
\* every call returns None.
C7_ScannerIsFused ==
    LET rets == patterns_rets
        q == OpenMarker(fixture)
        errs == {i \in 1..Len(rets) : IsErr(rets[i])}
    IN  /\ \A i \in 1..Len(rets) : \A j \in i + 1..Len(rets) :
              (IsNone(rets[i]) \/ IsErr(rets[i]) \/ (IsOk(rets[i]) /\ rets[i].left = 0))
                  => IsNone(rets[j])
        /\ (Stopped /\ q # None) =>
              /\ Cardinality(errs) = 1
              /\ \A i \in errs : \A j \in 1..i - 1 : IsOk(rets[j])
              /\ \E b \in 0..q[1] :
                    /\ ok_items(rets)
                           = items_of(ChunkedPatterns_new(SubSeq(fixture, 1, b),
                                                          patterns.max_chunk_size))
                    /\ concat(values(ok_items(rets))) = Render(SubSeq(fixture, 1, b))
                    /\ patterns.line = Render(SubSeq(fixture, b + 1, q[1]))
        /\ (Stopped /\ q = None) => errs = {}

\* an item, then the error of a marker opened after some text of its chunk
C7_Witness ==
    /\ Stopped
    /\ Len(patterns_rets) = 4
    /\ IsOk(patterns_rets[1])
    /\ IsErr(patterns_rets[2])
    /\ IsNone(patterns_rets[3])
    /\ patterns.line # <<>>

\* a logical line holds a span
HoldsSpan(line) ==
    \E i \in 1..Len(line) - 2 : \E j \in i + 3..Len(line) - 2 :
        SubSeq(line, i, i + 2) = <<60, 60, 60>> /\ SubSeq(line, j, j + 2) = <<62, 62, 62>>

\* C8, as stated: one item per logical line of the fixture, a pattern line
\* exactly when the logical line holds a span.
C8_OneItemPerLogicalLine ==
    (Stopped /\ OpenMarker(fixture) = None) =>
        LET items == ok_items(patterns_rets)
            ls == split_inclusive(fixture)
        IN  /\ Len(items) = Len(ls)
            /\ \A k \in 1..Len(items) :
                  (items[k].kind = "PatternLine") <=> HoldsSpan(ls[k])

\* C8, amended: one item per chunk, where a chunk ends with a newline
\* outside the markers, with the end of input, or as soon as the value of the
\* item reaches max_chunk_size bytes; an item is a pattern line exactly when
\* its chunk holds a span; between two calls the state is never HasPattern,
\* so a chunk without marker that follows a pattern chunk is literal.
C8_OneItemPerChunk ==
    /\ patterns.read_state # "HasPattern"
    /\ (Stopped /\ OpenMarker(fixture) = None) =>
        LET items == ok_items(patterns_rets)
            kinds == ChunkKinds(Units(fixture), patterns.max_chunk_size, 0, FALSE)
        IN  /\ Len(items) = Len(kinds)
            /\ \A k \in 1..Len(items) : items[k].kind = kinds[k]

\* a pattern line followed by a literal line
C8_Witness ==
    /\ Stopped
    /\ OpenMarker(fixture) = None
    /\ LET items == ok_items(patterns_rets)
       IN  /\ Len(items) = 2
           /\ items[1].kind = "PatternLine"
           /\ items[2].kind = "SimpleLine"
           /\ Len(split_inclusive(fixture)) = 2

(***************************************************************************)
(* Specification of one call of eval_pat_diff, one pass of its loop at a   *)
(* time.  The fixture and the actual output are made of whole lines.       *)
(***************************************************************************)
\* The fixture lines: "a", "<<<a>>>", "<<<b>>>", "<<<*>>>" (a regex that
\* does not compile), "<<<a" (a marker left open) and the empty line.
PatBodies ==
    { <<97>>, <<60, 60, 60, 97, 62, 62, 62>>, <<60, 60, 60, 98, 62, 62, 62>>,
      <<60, 60, 60, 42, 62, 62, 62>>, <<60, 60, 60, 97>>, <<>> }

\* The actual lines: "a", "ab", "b", the byte E9 (not UTF-8) and the empty
\* line.
ActualBodies == {<<97>>, <<97, 98>>, <<98>>, <<233>>, <<>>}

\* the texts of at most n lines of the bodies, the last one with or without
\* its newline
TextsOfLines(bodies, n) ==
    LET full == {b \o <<NL>> : b \in bodies}
    IN  {concat(ls) : ls \in SeqsUpTo(full, n)}
            \cup {concat(ls) \o b : ls \in SeqsUpTo(full, n - 1), b \in bodies \ {<<>>}}

InitPat ==
    /\ LinesIdle
    /\ PatternsIdle
    /\ CheckIdle
    /\ expected \in TextsOfLines(PatBodies, MaxPatLines)
    /\ actual \in TextsOfLines(ActualBodies, MaxPatLines)
    /\ result = Pending
    /\ pat_locals = eval_pat_diff_enter(expected, actual)
    /\ scanned = <<>>

\* one pass of the for loop of eval_pat_diff on the next expected line
PatLoop ==
    /\ result.state = "pending"
    /\ LET r == PatternLines_next(pat_locals.expected_lines)
           b == eval_pat_diff_body([pat_locals EXCEPT !.expected_lines = r.self], r.item[1])
       IN  /\ r.item # None
           /\ pat_locals' = b.locals
           /\ result' = b.result
           /\ scanned' = Append(scanned, [ item     |-> r.item[1],
                                           actual   |-> get(pat_locals.actual_lines, 0),
                                           accepted |-> b.result.state = "pending" ])
    /\ UNCHANGED <<linesVars, expected, actual, patternsVars, checkVars>>

\* the expected lines are exhausted: the end of eval_pat_diff
PatEnd ==
    /\ result.state = "pending"
    /\ LET r == PatternLines_next(pat_locals.expected_lines)
       IN  /\ r.item = None
           /\ pat_locals' = [pat_locals EXCEPT !.expected_lines = r.self]
           /\ result' = eval_pat_diff_end(pat_locals)
    /\ UNCHANGED <<linesVars, expected, actual, patternsVars, scanned, checkVars>>

NextPat == PatLoop \/ PatEnd

SpecPat == InitPat /\ [][NextPat]_vars

\* the regex has a match that starts at offset 0 of the line
MatchesAtStart(regex, line) == regex_match_at(regex.atoms, 1, line, 1)

\* the regex has a match that starts after offset 0 of the line
MatchesLater(regex, line) ==
    \E i \in 2..Len(line) + 1 : regex_match_at(regex.atoms, 1, line, i)

\* C4: a Pattern expected line accepts an actual line exactly when its regex
\* has a match that starts at offset 0 of the line, whether or not the match
\* covers the line; otherwise the outcome is Diff::PatternLine with both
\* sides present.
C4_PatternAcceptsAtOffset0 ==
    \A k \in 1..Len(scanned) :
        LET s == scanned[k]
        IN  (s.item.ok /\ s.item.v.kind = "Pattern" /\ s.actual # None) =>
                /\ s.accepted <=> MatchesAtStart(s.item.v.regex, s.actual[1])
                /\ ~s.accepted =>
                      /\ result.state = "returned"
                      /\ result.value.ok
                      /\ result.value.v # None
                      /\ result.value.v[1].kind = "PatternLine"
                      /\ result.value.v[1].expected = Some(s.item.v.regex.source)
                      /\ result.value.v[1].actual = s.actual

\* a pattern rejected although it matches later in the line, after a pattern
\* that was accepted
C4_Witness ==
    /\ Len(scanned) = 2
    /\ scanned[1].item.ok
    /\ scanned[1].item.v.kind = "Pattern"
    /\ scanned[1].accepted
    /\ scanned[1].actual # None
    /\ scanned[2].item.ok
    /\ scanned[2].item.v.kind = "Pattern"
    /\ scanned[2].actual # None
    /\ ~scanned[2].accepted
    /\ MatchesLater(scanned[2].item.v.regex, scanned[2].actual[1])

\* every item the scanner yields for a fixture, its error included
RECURSIVE ScanAll(_)
ScanAll(self) ==
    LET r == PatternLines_next(self)
    IN  IF r.item = None THEN <<>> ELSE r.item \o ScanAll(r.self)

\* the 1-based rows at which the scanner yields an error
ErrorRows(items) == {k \in 1..Len(items) : ~items[k].ok}

\* an expected line accepts an actual line, if there is one
Accepts(item, line) ==
    /\ item.ok
    /\ line # None
    /\ IF item.v.kind = "NoPattern" THEN item.v.text = line[1]
       ELSE MatchesAtStart(item.v.regex, line[1])

IsOkNone(res) == res.state = "returned" /\ res.value.ok /\ res.value.v = None

\* C5, as stated: a fixture with a scanner error at some row makes
\* eval_pat_diff return Err(InvalidPattern) whatever the actual stream is.
C5_ScanErrorAlwaysErr ==
    (result.state = "returned" /\ ErrorRows(ScanAll(PatternLines_new(expected))) # {})
        => ~result.value.ok

\* C5, amended: when the scanner yields an error at row r, eval_pat_diff
\* never returns Ok(None); it returns Err(InvalidPattern{reason, row: r}) if
\* every expected line before row r accepts the actual line of its row, and
\* otherwise Ok(Some(diff)) for a row before r.
C5_ScanErrorUnlessEarlierMismatch ==
    LET items == ScanAll(PatternLines_new(expected))
        al == split_inclusive(from_utf8_lossy(actual))
    IN  (result.state = "returned" /\ ErrorRows(items) # {}) =>
            LET r == CHOOSE k \in ErrorRows(items) : TRUE
            IN  /\ ~IsOkNone(result)
                /\ IF \A k \in 1..r - 1 : Accepts(items[k], get(al, k - 1))
                   THEN /\ ~result.value.ok
                        /\ result.value.v = Error_InvalidPattern(items[r].v, r)
                   ELSE /\ result.value.ok
                        /\ result.value.v[1].row < r

\* an invalid pattern on the second row, reached
C5_Witness ==
    /\ result.state = "returned"
    /\ ~result.value.ok
    /\ result.value.v.row = 2
    /\ Len(scanned) = 2
    /\ scanned[1].accepted
    /\ pat_locals.actual_lines # <<>>

\* C6: eval_pat_diff returns Ok(None) exactly when the scanner yields no
\* error, there are as many expected lines as actual lines, and every
\* expected line accepts the actual line of its row.
C6_OkNoneIffAllAccepted ==
    result.state = "returned" =>
        LET items == ScanAll(PatternLines_new(expected))
            al == split_inclusive(from_utf8_lossy(actual))
        IN  IsOkNone(result) <=>
                /\ ErrorRows(items) = {}
                /\ Len(items) = Len(al)
                /\ \A k \in 1..Len(items) : Accepts(items[k], get(al, k - 1))

\* a literal line and a pattern line, both accepted
C6_Witness ==
    /\ IsOkNone(result)
    /\ Len(scanned) = 2
    /\ \E k \in 1..2 : scanned[k].item.v.kind = "Pattern"
    /\ \E k \in 1..2 : scanned[k].item.v.kind = "NoPattern"

(***************************************************************************)
(* Ill-formed UTF-8 on either side of eval_diff and eval_exact_diff.       *)
(***************************************************************************)
IsDiffLine(res) ==
    /\ res.state = "returned"
    /\ res.value # None
    /\ res.value[1].kind = "Line"

\* C11: eval_diff never returns None for an expected that is not valid UTF-8
\* and an actual that differs from it.
C11_InvalidExpectedNeverNone ==
    (result.state # "pending" /\ ~from_utf8_is_ok(expected) /\ actual # expected)
        => result # Returned(None)

\* C12 as stated: in eval_exact_diff, if either side is not valid UTF-8 the
\* text comparison is not run and no Diff::Line is produced.
C12_EitherInvalidNoDiffLine ==
    (result.state # "pending"
        /\ (~from_utf8_is_ok(expected) \/ ~from_utf8_is_ok(actual)))
        => ~IsDiffLine(result)

\* C12: in eval_exact_diff, an expected that is not valid UTF-8 sends the call
\* to the byte comparator, whose outcome it has, and no Diff::Line is
\* produced; an actual that is not valid UTF-8, against a valid expected, is
\* decoded lossily and compared line by line as text, with a Diff::Line
\* exactly when the two texts differ.
C12_OnlyInvalidExpectedSkipsText ==
    result.state # "pending" =>
        /\ ~from_utf8_is_ok(expected) =>
            /\ result = eval_exact_diff_as_bytes(expected, from_utf8_lossy(actual))
            /\ ~IsDiffLine(result)
        /\ (from_utf8_is_ok(expected) /\ ~from_utf8_is_ok(actual)) =>
            /\ result.state = "returned"
            /\ IsDiffLine(result) <=> from_utf8_lossy(expected) # from_utf8_lossy(actual)

\* a valid expected and an ill-formed actual compared as text: a Diff::Line
C12_Witness ==
    /\ from_utf8_is_ok(expected)
    /\ ~from_utf8_is_ok(actual)
    /\ IsDiffLine(result)
    /\ result.value[1].row = 2

(***************************************************************************)
(* Specification of one call of either eval_exact_diff or eval_diff on two *)
(* byte buffers.                                                           *)
(***************************************************************************)
NextLossy == EvalExactDiff \/ EvalDiff

SpecLossy == InitExact /\ [][NextLossy]_vars

\* the row of a Diff::Line: the field row of verify/exact.rs, the field
\* number of verify/diff.rs
DiffRow(d) == IF "row" \in DOMAIN d THEN d.row ELSE d.number

HasReplacement(opt) == opt # None /\ \E k \in 1..Len(opt[1]) : opt[1][k] = 65533

\* C13 as stated: a valid UTF-8 expected against an actual that is not valid
\* UTF-8 always gives a Diff::Line whose actual side holds U+FFFD.
C13_InvalidActualDiffHoldsReplacement ==
    (result.state # "pending" /\ from_utf8_is_ok(expected) /\ ~from_utf8_is_ok(actual))
        => (IsDiffLine(result) /\ HasReplacement(result.value[1].actual))

\* C13: in eval_exact_diff and in eval_diff, a valid UTF-8 expected against an
\* actual that is not valid UTF-8 is compared as text with the lossily decoded
\* actual: the call returns None exactly when the two texts are equal, and
\* otherwise a Diff::Line for the first line (chunk) at which they differ,
\* with the row of that line and the decoded actual line as its actual side,
\* which holds U+FFFD whenever the first difference is at a replaced sequence.
C13_InvalidActualComparedAsLossyText ==
    (result.state # "pending" /\ from_utf8_is_ok(expected) /\ ~from_utf8_is_ok(actual)) =>
        LET e == from_utf8_lossy(expected)
            a == from_utf8_lossy(actual)
            p == FirstDifference(e, a)
        IN  /\ \E k \in 1..Len(a) : a[k] = 65533
            /\ result.state = "returned"
            /\ (result.value = None) <=> (e = a)
            /\ result.value # None =>
                LET d == result.value[1]
                    chunked == "number" \in DOMAIN d
                    ec == IF chunked THEN ChunksOf(e, diff_max_chunk_size, 1)
                          ELSE ChunksOf(e, str_len(e) + 1, 1)
                    ac == IF chunked THEN ChunksOf(a, diff_max_chunk_size, 1)
                          ELSE ChunksOf(a, str_len(a) + 1, 1)
                    el == values(ec)
                    al == values(ac)
                    m == FirstMismatch(el, al)
                IN  /\ d.kind = "Line"
                    /\ m # None
                    /\ d.expected = get(el, m[1])
                    /\ d.actual = get(al, m[1])
                    /\ DiffRow(d) = (IF m[1] < Len(ac) THEN ac[m[1] + 1].row
                                     ELSE ec[m[1] + 1].row)
                    /\ DiffRow(d) = 1 + newlines(SubSeq(a, 1, p[1]))
                    /\ (p[1] < Len(a) /\ a[p[1] + 1] = 65533) => HasReplacement(d.actual)

\* eval_diff reports the second line, where actual has an ill-formed byte
C13_Witness ==
    /\ from_utf8_is_ok(expected)
    /\ ~from_utf8_is_ok(actual)
    /\ IsDiffLine(result)
    /\ "number" \in DOMAIN result.value[1]
    /\ result.value[1].number = 2
    /\ result.value[1].expected # None
    /\ HasReplacement(result.value[1].actual)
    /\ ~HasReplacement(result.value[1].expected)

(***************************************************************************)
(* The diffs of eval_pat_diff (specification SpecPat).                     *)
(***************************************************************************)
IsOkSome(res) == res.state = "returned" /\ res.value.ok /\ res.value.v # None

\* C14: when an expected line of eval_pat_diff fails, the diff has the kind
\* of the line: Diff::Line for a literal line, which fails exactly when no
\* actual line is left or the actual line differs from its text, and
\* Diff::PatternLine for a pattern line; its expected side is the text or the
\* pattern source, its actual side is the actual line of the same index, None
\* if there is none, and its row is the row of the line.
C14_DiffKindFollowsExpectedLine ==
    LET al == split_inclusive(from_utf8_lossy(actual))
    IN  \A k \in 1..Len(scanned) :
            LET s == scanned[k]
            IN  s.item.ok =>
                    /\ s.actual = get(al, k - 1)
                    /\ s.item.v.kind = "NoPattern" =>
                           (s.accepted <=> s.actual = Some(s.item.v.text))
                    /\ ~s.accepted =>
                        /\ IsOkSome(result)
                        /\ k = Len(scanned)
                        /\ result.value.v[1] =
                               IF s.item.v.kind = "NoPattern"
                               THEN Diff_Line(Some(s.item.v.text), s.actual, k)
                               ELSE Diff_PatternLine(Some(s.item.v.regex.source), s.actual, k)

\* a literal second line that differs from the actual line only by its
\* missing newline, after an accepted pattern line
C14_Witness ==
    /\ Len(scanned) = 2
    /\ scanned[1].accepted
    /\ scanned[1].item.v.kind = "Pattern"
    /\ scanned[2].item.ok
    /\ scanned[2].item.v.kind = "NoPattern"
    /\ ~scanned[2].accepted
    /\ scanned[2].actual = Some(scanned[2].item.v.text \o <<NL>>)
    /\ IsOkSome(result)
    /\ result.value.v[1].kind = "Line"

\* C15: when every expected line of eval_pat_diff was accepted and an actual
\* line is left, the result is Diff::Line with no expected side, the first
\* actual line left as its actual side, and row = number of expected lines + 1.
C15_ExtraActualLine ==
    LET items == ScanAll(PatternLines_new(expected))
        al == split_inclusive(from_utf8_lossy(actual))
    IN  ( /\ result.state = "returned"
          /\ ErrorRows(items) = {}
          /\ Len(al) > Len(items)
          /\ \A k \in 1..Len(items) : Accepts(items[k], get(al, k - 1)) )
        => result = Returned(Ok(Some(Diff_Line(None, Some(al[Len(items) + 1]),
                                               Len(items) + 1))))

\* one pattern line accepted and one actual line left
C15_Witness ==
    /\ IsOkSome(result)
    /\ result.value.v[1].expected = None
    /\ result.value.v[1].row = 2
    /\ Len(scanned) = 1
    /\ scanned[1].item.v.kind = "Pattern"
    /\ scanned[1].accepted
    /\ result.value.v[1].actual = Some(pat_locals.actual_lines[1])

(***************************************************************************)
(* The chunks of ChunkedLines (specification SpecLines).                   *)
(***************************************************************************)
\* the chunks yielded so far, up to the k-th, as one text
YieldedText(k) == concat(values(SubSeq(lines_out, 1, k)))

\* C16: ChunkedLines never splits a char: every chunk starts and ends at a
\* byte offset that is a char boundary of the text and holds exactly the
\* chars between the two; a char at least as wide as max_chunk_size is a chunk
\* of its own, so with max_chunk_size = 1 every chunk is exactly one char.
C16_ChunksAreWholeChars ==
    /\ is_char_boundary(lines.input, lines.chunk_start_offset)
    /\ str_len(YieldedText(Len(lines_out))) = lines.chunk_start_offset
    /\ \A k \in 1..Len(lines_out) :
        LET from == str_len(YieldedText(k - 1))
            to == str_len(YieldedText(k))
            chunk == lines_out[k].value
        IN  /\ is_char_boundary(lines.input, from)
            /\ is_char_boundary(lines.input, to)
            /\ chunk = SubSeq(lines.input, Len(YieldedText(k - 1)) + 1,
                              Len(YieldedText(k)))
            /\ chunk # <<>>
            /\ len_utf8(chunk[1]) >= lines.max_chunk_size => Len(chunk) = 1
            /\ lines.max_chunk_size = 1 => Len(chunk) = 1

\* a text of three 4-byte chars and more, cut with max_chunk_size = 1
C16_Witness ==
    /\ lines_ret = "None"
    /\ lines.max_chunk_size = 1
    /\ Len(lines.input) >= 3
    /\ \A i \in 1..Len(lines.input) : len_utf8(lines.input[i]) = 4
    /\ Len(lines_out) = Len(lines.input)

\* the chunk stops at the end of the text
EndsText(k) == Len(YieldedText(k)) = Len(lines.input)

Last(s) == s[Len(s)]

\* C17: for max_chunk_size n >= 1 every chunk of ChunkedLines ends at the
\* first of: just after a newline, or as soon as its byte length reaches n.
\* So a chunk has no newline except as its last char, a chunk without its last
\* char is shorter than n bytes (and has at most n chars), a chunk that does
\* not end the text ends with a newline or has a byte length >= n, and the
\* chunks are those of the text cut by that rule.
C17_ChunkEndsAtNewlineOrSize ==
    LET n == lines.max_chunk_size
        cut == values(ChunksOf(lines.input, n, 1))
    IN  n >= 1 =>
          /\ \A k \in 1..Len(lines_out) :
                LET chunk == lines_out[k].value
                IN  /\ \A j \in 1..Len(chunk) - 1 : chunk[j] # NL
                    /\ str_len(SubSeq(chunk, 1, Len(chunk) - 1)) < n
                    /\ Len(chunk) <= n
                    /\ \/ Last(chunk) = NL
                       \/ str_len(chunk) >= n
                       \/ EndsText(k)
          /\ Len(lines_out) <= Len(cut)
          /\ values(lines_out) = SubSeq(cut, 1, Len(lines_out))
          /\ lines_ret = "None" => Len(lines_out) = Len(cut)

\* a chunk cut by the size limit in the middle of a 2-byte char, one cut by a
\* newline, and a short last one
C17_Witness ==
    /\ lines_ret = "None"
    /\ lines.max_chunk_size = 2
    /\ Len(lines_out) = 3
    /\ str_len(lines_out[1].value) = 3
    /\ Last(lines_out[1].value) # NL
    /\ Last(lines_out[2].value) = NL
    /\ str_len(lines_out[3].value) = 1

\* C18: the row of a chunk is the row at its start, 1 + the number of
\* newlines of the text before the chunk: it is the row of the previous chunk
\* if that one was cut by the size limit and one more if it ends with a
\* newline; the row counter is 1 + the number of newlines yielded so far, and
\* once the sequence is exhausted 1 + the number of newlines of the text.
C18_RowIsRowAtChunkStart ==
    /\ \A k \in 1..Len(lines_out) :
        /\ lines_out[k].row = 1 + newlines(YieldedText(k - 1))
        /\ k > 1 => lines_out[k].row =
                        lines_out[k - 1].row
                            + (IF Last(lines_out[k - 1].value) = NL THEN 1 ELSE 0)
    /\ lines.current_row = 1 + newlines(YieldedText(Len(lines_out)))
    /\ lines_ret = "None" => lines.current_row = 1 + newlines(lines.input)

\* two chunks of the first line, then a chunk of the second line, in a text
\* that ends with a newline
C18_Witness ==
    /\ lines_ret = "None"
    /\ Len(lines_out) = 3
    /\ lines_out[1].row = 1
    /\ lines_out[2].row = 1
    /\ lines_out[3].row = 2
    /\ lines.current_row = 3

\* C19: ChunkedLines yields nothing for an empty text; for a text that does not
\* end with a newline the last chunk it yields is the end of the text, without
\* newline; it never yields an empty chunk; once next() has returned None every
\* later call returns None.
C19_EmptyFinalAndFused ==
    /\ (lines.input = <<>> /\ lines_ret # "new") =>
            (lines_ret = "None" /\ lines_out = <<>>)
    /\ (lines_ret = "None" /\ lines.input # <<>> /\ Last(lines.input) # NL) =>
            /\ lines_out # <<>>
            /\ EndsText(Len(lines_out))
            /\ \A j \in 1..Len(Last(lines_out).value) : Last(lines_out).value[j] # NL
    /\ \A k \in 1..Len(lines_out) : lines_out[k].value # <<>>
    /\ lines_nones >= 1 => lines_ret = "None"

\* next() called twice more after its first None, on a text whose last chunk
\* has no newline and follows a whole line
C19_Witness ==
    /\ lines_nones = 3
    /\ Len(lines_out) = 2
    /\ Last(lines_out[1].value) = NL
    /\ Last(lines_out[2].value) # NL
    /\ str_len(lines_out[2].value) < lines.max_chunk_size

(***************************************************************************)
(* Specification of one call of check_result on a command and the result   *)
(* of its run.  Either the .exit file is explored and there is no other    *)
(* fixture, or there is no .exit file or a plain one and the other         *)
(* fixtures are explored.                                                  *)
(***************************************************************************)
\* The pieces the explored .exit files are made of: "1", "0", "-", " ", "\n"
\* and a lone 0xE9.
ExitTokens == {<<49>>, <<48>>, <<45>>, <<32>>, <<NL>>, <<233>>}

\* "2147483647", "2147483648", "-2147483648" and "-2147483649", each with a
\* newline, and "+1"
ExitLimits ==
    { <<50, 49, 52, 55, 52, 56, 51, 54, 52, 55, NL>>,
      <<50, 49, 52, 55, 52, 56, 51, 54, 52, 56, NL>>,
      <<45, 50, 49, 52, 55, 52, 56, 51, 54, 52, 56, NL>>,
      <<45, 50, 49, 52, 55, 52, 56, 51, 54, 52, 57, NL>>,
      <<43, 49>> }

ExitFiles ==
    {None, Some(File(FALSE, <<>>))}
        \cup {Some(File(TRUE, concat(ts))) : ts \in SeqsUpTo(ExitTokens, MaxExitTokens)}
        \cup {Some(File(TRUE, b)) : b \in ExitLimits}

ExitCodes == {ExitCode(0), ExitCode(1), ExitCode(-1), ExitCode(10), ExitCode(i32_MAX),
              ExitCode(i32_MIN)}

\* no file, a file that cannot be read, "a\n", and a lone 0xE9
StdoutFiles == {None, Some(File(FALSE, <<>>)), Some(File(TRUE, <<97, NL>>)),
                Some(File(TRUE, <<233>>))}

\* no file, "<<<a>>>\n" and "<<<a"
StdoutPatFiles == {None, Some(File(TRUE, <<60, 60, 60, 97, 62, 62, 62, NL>>)),
                   Some(File(TRUE, <<60, 60, 60, 97>>))}

StderrFiles == {None, Some(File(TRUE, <<97>>))}

InitCheck ==
    /\ LinesIdle
    /\ DiffIdle
    /\ PatternsIdle
    /\ PatIdle
    /\ \/ /\ \E exit \in ExitFiles : cmd_spec = CommandSpec_new(exit, None, None, None)
          /\ \E code \in ExitCodes, out \in {<<>>, <<97, NL>>} :
                cmd_result = CommandResult_new(code, out, <<>>)
       \/ /\ \E exit \in {None, Some(File(TRUE, <<48, NL>>))},
                out \in StdoutFiles, pat \in StdoutPatFiles, err \in StderrFiles :
                cmd_spec = CommandSpec_new(exit, out, pat, err)
          /\ \E code \in {ExitCode(0), ExitCode(1)},
                out \in {<<>>, <<97, NL>>, <<98>>}, err \in {<<>>, <<97>>} :
                cmd_result = CommandResult_new(code, out, err)
    /\ check = Pending

CheckResult ==
    /\ check = Pending
    /\ check' = check_result(cmd_spec, cmd_result)
    /\ UNCHANGED <<linesVars, diffVars, patternsVars, patVars, cmd_spec, cmd_result>>

NextCheck == CheckResult

SpecCheck == InitCheck /\ [][NextCheck]_vars

\* the value of a run of digits, counted below zero so that i32::MIN fits
RECURSIVE NegDecimal(_)
NegDecimal(d) ==
    IF d = <<>> THEN 0
    ELSE 10 * NegDecimal(SubSeq(d, 1, Len(d) - 1)) - (d[Len(d)] - 48)

\* a run of digits is at most the run of digits limit, as numbers
RECURSIVE DigitsAtMost(_, _)
DigitsAtMost(d, limit) ==
    IF d # <<>> /\ Head(d) = 48 /\ Len(d) > 1 THEN DigitsAtMost(Tail(d), limit)
    ELSE \/ Len(d) < Len(limit)
         \/ /\ Len(d) = Len(limit)
            /\ \/ d = limit
               \/ \E k \in 1..Len(d) :
                    /\ SubSeq(d, 1, k - 1) = SubSeq(limit, 1, k - 1)
                    /\ d[k] < limit[k]

\* the exit code a text stands for, if any: an i32 written in decimal, with
\* an optional sign, between optional blanks
TextExitCode(s) ==
    LET body == SelectSeq(s, LAMBDA c : ~is_whitespace(c))
        blanks_inside == \E i, j, k \in 1..Len(s) :
                            /\ i < j /\ j < k
                            /\ ~is_whitespace(s[i])
                            /\ is_whitespace(s[j])
                            /\ ~is_whitespace(s[k])
        signed == body # <<>> /\ body[1] \in {43, 45}
        negative == body # <<>> /\ body[1] = 45
        digits == IF signed THEN Tail(body) ELSE body
    IN  IF /\ ~blanks_inside
           /\ digits # <<>>
           /\ \A k \in 1..Len(digits) : is_digit(digits[k])
           /\ DigitsAtMost(digits, IF negative
                                   THEN <<50, 49, 52, 55, 52, 56, 51, 54, 52, 56>>
                                   ELSE <<50, 49, 52, 55, 52, 56, 51, 54, 52, 55>>)
        THEN Some(IF negative THEN NegDecimal(digits) ELSE 0 - NegDecimal(digits))
        ELSE None

\* the exit code a command is expected to end with, if its fixture gives one
ExpectedCode(c) ==
    IF c.exit_code_path = None THEN Some(0)
    ELSE IF ~c.exit_code_path[1].readable \/ ~from_utf8_is_ok(c.exit_code_path[1].bytes)
    THEN None
    ELSE TextExitCode(from_utf8_lossy(c.exit_code_path[1].bytes))

\* check_result stopped at check_exit_code
ExitCheckFailed(outcome) ==
    /\ outcome.state = "returned"
    /\ ~outcome.value.ok
    /\ outcome.value.v.kind \in {"CheckExitCode", "ExpectedExitCodeFile"}

NoFixture(c) ==
    c.exit_code_path = None /\ c.stdout_path = None
        /\ c.stdout_pat_path = None /\ c.stderr_path = None

\* C20: check_exit_code succeeds exactly when the actual exit code is the
\* expected one, which is 0 for a command without .exit file and otherwise
\* the i32 written in the file (there is none if the file cannot be read as
\* one); a mismatch is reported with both codes; check_result succeeds for a
\* command without any fixture file whose run ends with exit code 0 and empty
\* stdout and stderr.
C20_ExitCodeCheck ==
    check.state # "pending" =>
        LET e == ExpectedCode(cmd_spec)
            equal == e # None /\ e[1] = cmd_result.exit_code
        IN  /\ ExitCheckFailed(check) <=> ~equal
            /\ cmd_spec.exit_code_path = None =>
                    (ExitCheckFailed(check) <=> cmd_result.exit_code # 0)
            /\ (e # None /\ ~equal) =>
                    /\ ExitCheckFailed(check)
                    /\ check.value.v = Error_CheckExitCode(e[1], cmd_result.exit_code,
                                                           cmd_result.stderr)
            /\ ( /\ NoFixture(cmd_spec)
                 /\ cmd_result = CommandResult_new(ExitCode(0), <<>>, <<>>) )
                    => passed(check)

\* a command without any fixture file, exit code 0, nothing on stdout and
\* stderr: check_result has returned Ok
C20_Witness ==
    /\ passed(check)
    /\ NoFixture(cmd_spec)
    /\ cmd_result = CommandResult_new(ExitCode(0), <<>>, <<>>)

\* C21: when a command has neither a .out nor a .out.pattern fixture,
\* check_result returns an error if the exit code is the expected one and the
\* actual stdout is not empty.
C21_StdoutMustBeEmptyWithoutFixture ==
    ( /\ check.state # "pending"
      /\ cmd_spec.stdout_path = None
      /\ cmd_spec.stdout_pat_path = None
      /\ ExpectedCode(cmd_spec) = Some(cmd_result.exit_code)
      /\ cmd_result.stdout # <<>> )
        => ~passed(check)

\* the number of expected lines the loop has accepted
AcceptedCount(sc) == Cardinality({k \in 1..Len(sc) : sc[k].accepted})

\* the row an outcome of eval_pat_diff carries
OutcomeRow(res) == IF res.value.ok THEN res.value.v[1].row ELSE res.value.v.row

\* C22: eval_pat_diff takes the expected lines and the actual lines in
\* lock-step: the k-th expected line is tested against the k-th actual line,
\* the loop goes on only past accepted lines, and the row of the loop and of
\* any Diff or InvalidPattern outcome is 1 + the number of expected lines
\* accepted so far, so that a scanner error carries the 1-based index of the
\* line it occurs on.
C22_RowIsOnePlusAccepted ==
    LET al == split_inclusive(from_utf8_lossy(actual))
        n == Len(scanned)
        items == ScanAll(PatternLines_new(expected))
    IN  /\ \A k \in 1..n : /\ scanned[k].item = items[k]
                           /\ scanned[k].actual = get(al, k - 1)
                           /\ k < n => scanned[k].accepted
        /\ pat_locals.row = 1 + AcceptedCount(scanned)
        /\ pat_locals.actual_lines =
               SubSeq(al, (IF AcceptedCount(scanned) < Len(al)
                           THEN AcceptedCount(scanned) ELSE Len(al)) + 1, Len(al))
               \/ (n > 0 /\ ~scanned[n].accepted)
        /\ (result.state = "returned" /\ ~IsOkNone(result))
               => /\ OutcomeRow(result) = 1 + AcceptedCount(scanned)
                  /\ ~result.value.ok => (n \in ErrorRows(items)
                                            /\ OutcomeRow(result) = n)

\* an InvalidPattern error at row 2, after one accepted line
C22_Witness ==
    /\ result.state = "returned"
    /\ ~result.value.ok
    /\ result.value.v.row = 2
    /\ Len(scanned) = 2
    /\ scanned[1].accepted

\* the values of the units grouped in chunks, as ChunkKinds groups them; acc
\* is the value of the chunk under way
RECURSIVE ChunkValues(_, _, _)
ChunkValues(us, n, acc) ==
    IF us = <<>> THEN <<>>
    ELSE LET u == Head(us)
             acc1 == acc \o u.text
         IN  IF u.nl \/ str_len(acc1) >= n \/ Len(us) = 1
             THEN <<acc1>> \o ChunkValues(Tail(us), n, <<>>)
             ELSE ChunkValues(Tail(us), n, acc1)

\* C23: on a fixture whose markers are all closed, the value of each item of
\* ChunkedPatterns is the concatenation, in order, of the units of its chunk:
\* each char read outside the markers, with a backslash before a regex
\* metacharacter, and the content of each <<<...>>> span as it is, the span
\* being closed by the earliest following >>>; the delimiters are not copied
\* and a unit, so an opening marker, is never split between two items.
C23_ValueIsEscapedTextAndRawSpans ==
    OpenMarker(fixture) = None =>
        LET items == ok_items(patterns_rets)
            cv == ChunkValues(Units(fixture), patterns.max_chunk_size, <<>>)
        IN  /\ Len(items) <= Len(cv)
            /\ \A k \in 1..Len(items) : items[k].value = cv[k]
            /\ Stopped => /\ Len(items) = Len(cv)
                          /\ concat(values(items)) = Render(fixture)

\* ".<<<.>>>" under the size limit 2: the escaped "." outside the markers,
\* then the "." of the span as it is
C23_Witness ==
    /\ Stopped
    /\ OpenMarker(fixture) = None
    /\ LET items == ok_items(patterns_rets)
       IN  /\ Len(items) = 2
           /\ items[1].value = <<92, 46>>
           /\ items[2].value = <<46>>
           /\ items[2].kind = "PatternLine"

\* the UTF-8 encoding of a char
encode_utf8(c) ==
    IF c < 128 THEN <<c>>
    ELSE IF c < 2048 THEN <<192 + (c \div 64), 128 + (c % 64)>>
    ELSE IF c < 65536
    THEN <<224 + (c \div 4096), 128 + ((c \div 64) % 64), 128 + (c % 64)>>
    ELSE <<240 + (c \div 262144), 128 + ((c \div 4096) % 64),
           128 + ((c \div 64) % 64), 128 + (c % 64)>>

\* str::as_bytes
as_bytes(s) == concat([k \in 1..Len(s) |-> encode_utf8(s[k])])

\* a text without opening marker
MarkerFree(t) == \A i \in 1..Len(t) - 2 : SubSeq(t, i, i + 2) # <<60, 60, 60>>

\* C24: on an expected text without "<<<" the pattern diff returns what the
\* exact diff returns on the same bytes, wrapped in Ok: the same None, or the
\* same Diff::Line with the same sides and row, whatever the actual bytes.
C24_PatDiffIsExactDiffWithoutMarker ==
    (result.state = "returned" /\ MarkerFree(expected)) =>
        LET exact == eval_exact_diff(as_bytes(expected), actual)
        IN  /\ exact.state = "returned"
            /\ result.value.ok
            /\ result.value.v = exact.value

\* a marker-free fixture of two lines against an actual whose second line is
\* not UTF-8: a Diff::Line at row 2 with U+FFFD on the actual side
C24_Witness ==
    /\ result.state = "returned"
    /\ MarkerFree(expected)
    /\ Len(scanned) = 2
    /\ ~from_utf8_is_ok(actual)
    /\ result.value.ok
    /\ result.value.v # None
    /\ result.value.v[1].row = 2
    /\ HasReplacement(result.value.v[1].actual)
    /\ result.value.v = eval_exact_diff(as_bytes(expected), actual).value

\* every line of a text holds at most diff_max_chunk_size bytes, its newline
\* included
ShortLines(text) ==
    \A k \in 1..Len(split_inclusive(text)) :
        str_len(split_inclusive(text)[k]) <= diff_max_chunk_size

\* C25: for an expected that is valid UTF-8, eval_diff and eval_exact_diff
\* return None on the same inputs and, when they return a diff, the same row;
\* when every line of the two texts compared (actual decoded lossily) holds at
\* most 64 bytes, the two diffs also have the same expected and actual sides.
C25_ChunkedDiffAgreesWithExactDiff ==
    (result.state = "returned" /\ from_utf8_is_ok(expected)) =>
        LET exact == eval_exact_diff(expected, actual)
        IN  /\ exact.state = "returned"
            /\ (result.value = None) <=> (exact.value = None)
            /\ result.value # None =>
                  /\ result.value[1].number = exact.value[1].row
                  /\ (ShortLines(from_utf8_lossy(expected))
                          /\ ShortLines(from_utf8_lossy(actual)))
                       => /\ result.value[1].expected = exact.value[1].expected
                          /\ result.value[1].actual = exact.value[1].actual

\* a difference on the second line of two texts of short lines
C25_Witness ==
    /\ result.state = "returned"
    /\ from_utf8_is_ok(expected)
    /\ ShortLines(from_utf8_lossy(expected))
    /\ ShortLines(from_utf8_lossy(actual))
    /\ result.value # None
    /\ result.value[1].number = 2
    /\ result.value[1].expected # None
    /\ result.value[1].actual # None
    /\ result.value[1].expected # result.value[1].actual
    /\ eval_exact_diff(expected, actual).value[1].row = 2

\* a difference past the 64th byte of a line: the same row, other sides
C25_WitnessLongLine ==
    /\ result.state = "returned"
    /\ from_utf8_is_ok(expected)
    /\ ~ShortLines(from_utf8_lossy(expected))
    /\ result.value # None
    /\ result.value[1].number = eval_exact_diff(expected, actual).value[1].row
    /\ result.value[1].expected # eval_exact_diff(expected, actual).value[1].expected

\* C26: eval_exact_diff returns None only for two streams that are equal
\* byte for byte.
C26_NoneOnlyForIdenticalStreams ==
    (result.state = "returned" /\ result.value = None) => expected = actual

\* the number of chars of the fixture read before the i-th call of next()
ReadBefore(rets, i) == Len(fixture) - (IF i = 1 THEN Len(fixture) ELSE rets[i - 1].left)

\* C27: the row of every item of ChunkedPatterns is 1 + the number of
\* newlines of the fixture before the first char of the item, the newlines
\* inside the <<<...>>> spans included.
C27_RowCountsEveryNewlineBefore ==
    \A i \in 1..Len(patterns_rets) :
        IsOk(patterns_rets[i]) =>
            patterns_rets[i].item[1].v.row
                = 1 + newlines(SubSeq(fixture, 1, ReadBefore(patterns_rets, i)))

====
